---- MODULE Spec2Model ----
(***************************************************************************)
(* Model of the IRS EIN form automation (src/main.py, src/main_FAST.py).   *)
(*                                                                         *)
(* Four specifications share one set of variables; each leaves the        *)
(* variables of the others unchanged:                                      *)
(*   Spec          the wizard driver run_irs_ein_application of main.py    *)
(*   SpecEndpoint  the /run-irs-ein handler of main.py, its confirmation   *)
(*                 wait and the /confirmation-callback handler             *)
(*   SpecState     select_state of main.py and of main_FAST.py             *)
(*   SpecShared    requests of several clients against both variants      *)
(* The browser and the upstream CRM are the environment: every lookup,    *)
(* click, script call and POST may succeed or fail.                        *)
(***************************************************************************)
EXTENDS Integers, Sequences, FiniteSets, TLC

VARIABLES
    \* ---- wizard run (main.py run_irs_ein_application)
    wpc,            \* position in the script: a step number, NSteps + 1 when done
    json_summary,   \* data.json_summary, abstracted (see JsonSummaries)
    driver,         \* local `driver`: "none" or "open"
    waitBound,      \* whether local `wait` has been assigned
    entryLoaded,    \* the wait for 'individual-leftcontent' succeeded
    llc_members,    \* local `llc_members` (0 before it is computed)
    attempted,      \* the steps attempted so far, in the order they were
    caught,         \* the exception the outer guard caught, or "none"
    clickFailed,    \* some click_button call returned False
    navOk,          \* every click_button call so far clicked exactly once
    result,         \* the returned tuple, or NoResult
    raised,         \* exception leaving the function, or "none"
    \* ---- endpoint (main.py run_irs_ein_application_endpoint, confirmation_callback)
    confirmation_status, \* the process-wide map formId -> proceed
    epc,            \* handler position
    req,            \* the request being handled: its variant and record_id
    run,            \* what run_irs_ein_application gave the handler
    edriver,        \* handler local `driver`: "none" or "open"
    sessions,       \* browser sessions created for the current request
    teardown,       \* "none", "quit", "killed" or "failed"
    posts,          \* the POSTs the current request sent upstream, in order
    elapsed,        \* handler local `elapsed`
    polls,          \* times the handler tested the map in this request
    proceed,        \* handler local `proceed` (read only once consumedAt >= 0)
    finalized,      \* finalize_form_submission ran
    response,       \* the HTTP response of the last request, or NoResponse
    served,         \* number of requests completed
    cbLog,          \* confirmation callbacks received, in order
    consumedAt,     \* Len(cbLog) when the handler popped its entry (-1: not yet)
    postedAt,       \* Len(cbLog) when the handler sent its completion POST
    replies,        \* how each POST of the request ended, in order
    \* ---- select_state
    spc,            \* position in select_state
    variant,        \* "main" or "FAST"
    arg,            \* the argument the caller passed (see StateInputs)
    physical_state, \* local `physical_state`
    options,        \* `available_values`: the option values of the control
    located,        \* local `state_select` is bound
    resolved,       \* local `state_value`, None before it is assigned
    selected,       \* the value select_state left on the control
    selectedBy,     \* the path that set it: "none" when no path did
    stExc,          \* the exception caught by select_state, or "none"
    logged,         \* the kinds of messages select_state logged
    \* ---- shared state across requests (main_FAST)
    CSV_FILE_PATH,  \* the module global of that name: a location
    files,          \* location -> record written to the CSV file there
    runs,           \* the runs so far: variant, request input, values used
    \* ---- one call of click_button, select_radio or handle_unexpected_popups
    ppc,            \* "call" before the function ran, "done" after
    pcall,          \* the function called and what it meets
    pres,           \* what the call returned
    pages,          \* the page before the first call and after each call
    \* ---- the values a run writes into the wizard's fields
    fpc,            \* position: 0 before the locals are set, then the block number
    fvariant,       \* "main" or "FAST"
    fdata,          \* the input: the request body (main) or the CSV row (FAST)
    fabout,         \* what the input was built from (see FieldCases)
    flocals,        \* the locals set before the browser starts
    written,        \* field id -> the value written to it
    fsteps,         \* the blocks attempted so far, in order
    fret,           \* how the run ended: "none", "success", "failure", "raise"
    \* ---- JSON_Summary__c on its way into the run's locals (main_FAST)
    jpc,            \* "parse", "locals", "done"
    json_content,   \* the value of the CSV cell, as parse_json_summary gets it
    flattened_json, \* what parse_json_summary returned, or that it raised
    jlocals         \* the locals read from flattened_json

wizVars == <<wpc, json_summary, driver, waitBound, entryLoaded, llc_members,
             attempted, caught, clickFailed, navOk, result, raised>>
epVars == <<confirmation_status, epc, req, run, edriver, sessions, teardown,
            posts, elapsed, polls, proceed, finalized, response, served,
            cbLog, consumedAt, postedAt, replies>>
stVars == <<spc, variant, arg, physical_state, options, located, resolved,
            selected, selectedBy, stExc, logged>>
shVars == <<CSV_FILE_PATH, files, runs>>
prVars == <<ppc, pcall, pres, pages>>
fdVars == <<fpc, fvariant, fdata, fabout, flocals, written, fsteps, fret>>
jsVars == <<jpc, json_content, flattened_json, jlocals>>
vars == <<wizVars, epVars, stVars, shVars, prVars, fdVars, jsVars>>

None == "None"
NoResult == [kind |-> "none"]
NoResponse == [code |-> 0]
NoRequest == [variant |-> None, record_id |-> None]
EmptyMap == [i \in {} |-> FALSE]
NoArgument == [given |-> FALSE, text |-> "", code |-> None, form |-> "junk"]

\* The variables a specification does not use stay at these values.
WizIdle ==
    /\ wpc = 0 /\ json_summary = [kind |-> "absent"] /\ driver = "none"
    /\ waitBound = FALSE /\ entryLoaded = FALSE /\ llc_members = 0
    /\ attempted = <<>> /\ clickFailed = FALSE /\ navOk = TRUE
    /\ result = NoResult /\ raised = "none" /\ caught = "none"
EpIdle ==
    /\ confirmation_status = EmptyMap /\ epc = "off" /\ req = NoRequest /\ run = NoResult
    /\ edriver = "none" /\ sessions = 0 /\ teardown = "none" /\ posts = <<>>
    /\ elapsed = 0 /\ polls = 0 /\ proceed = FALSE /\ finalized = FALSE
    /\ response = NoResponse /\ served = 0 /\ cbLog = <<>>
    /\ consumedAt = -1 /\ postedAt = -1 /\ replies = <<>>
StIdle ==
    /\ spc = "off" /\ variant = "main" /\ arg = NoArgument
    /\ physical_state = "" /\ options = {} /\ located = FALSE
    /\ resolved = None /\ selected = "" /\ selectedBy = "none"
    /\ stExc = "none" /\ logged = {}
ShIdle ==
    /\ CSV_FILE_PATH = "cwd" /\ files = EmptyMap /\ runs = <<>>
PrIdle ==
    /\ ppc = "off" /\ pcall = [fn |-> None] /\ pres = NoResult /\ pages = <<>>
FdIdle ==
    /\ fpc = -1 /\ fvariant = "main" /\ fdata = EmptyMap /\ fabout = NoResult
    /\ flocals = EmptyMap /\ written = EmptyMap /\ fsteps = <<>> /\ fret = "none"
JsIdle ==
    /\ jpc = "off" /\ json_content = NoResult /\ flattened_json = NoResult
    /\ jlocals = EmptyMap

(***************************************************************************)
(* Primitives (main.py 318-354)                                            *)
(***************************************************************************)

\* click_button's default `retries` (main.py 318).
DefaultRetries == 2

\* What one attempt of click_button meets: "fail" (the wait, the scroll or
\* the click raised: nothing was clicked), "ok" (clicked, popups handled),
\* "popup_raise" (clicked, then handle_unexpected_popups raised).
ClickOutcomes == {"fail", "ok", "popup_raise"}

RECURSIVE click_attempt(_, _, _, _)
click_attempt(outs, attempt, retries, clicks) ==
    LET o == outs[attempt + 1] IN
    IF o = "ok" THEN [ret |-> TRUE, clicks |-> clicks + 1, attempts |-> attempt + 1,
                      pauses |-> attempt]
    ELSE LET c == IF o = "popup_raise" THEN clicks + 1 ELSE clicks IN
         IF attempt = retries
         THEN [ret |-> FALSE, clicks |-> c, attempts |-> attempt + 1,
               pauses |-> attempt]
         ELSE click_attempt(outs, attempt + 1, retries, c)

\* click_button(driver, wait, locator, desc, scroll, retries): the loop over
\* range(retries + 1); outs[a + 1] is what attempt a meets.  `pauses`
\* counts the 0.5 s sleeps of the except clause: one for every failed
\* attempt that is not the last.
click_button_no_retry(outs, retries) == click_attempt(outs, 0, 0, 0)

click_button(outs, retries) == click_attempt(outs, 0, retries, 0)

\* What select_radio meets: the scripted assignment and read-back ("raise",
\* "checked", "unchecked"), the real click ("ok", "fail") and the popup
\* handling after either path ("ok", "raise").
RadioOutcomes == [js : {"raise", "checked", "unchecked"},
                  click : {"ok", "fail"}, popups : {"ok", "raise"}]

select_radio(o) ==
    IF o.js = "raise" THEN [ret |-> FALSE, checked |-> FALSE, clicked |-> FALSE]
    ELSE IF o.js = "checked"
    THEN [ret |-> o.popups = "ok", checked |-> TRUE, clicked |-> FALSE]
    ELSE IF o.click = "fail"
    THEN [ret |-> FALSE, checked |-> FALSE, clicked |-> FALSE]
    ELSE [ret |-> o.popups = "ok", checked |-> TRUE, clicked |-> TRUE]

(***************************************************************************)
(* determine_number_of_members (main.py 147-186)                           *)
(***************************************************************************)

\* Largest "responsible party-N" number a json_summary of the model holds.
MaxParty == 5

\* data.json_summary, abstracted to what determine_number_of_members reads:
\* absent, not valid JSON, or the set of party numbers found in its keys.
PartySets == {S \in SUBSET (0..MaxParty) : Cardinality(S) <= 1} \cup
             {{1, n} : n \in 2..MaxParty}
JsonSummaries == {[kind |-> "absent"], [kind |-> "malformed"]} \cup
                 {[kind |-> "json", parties |-> S] : S \in PartySets}

SetMax(S) == CHOOSE m \in S : \A n \in S : n <= m
SetMin(S) == CHOOSE m \in S : \A n \in S : m <= n

determine_number_of_members(js) ==
    IF js.kind # "json" THEN 2
    ELSE IF js.parties = {} THEN 2
    ELSE IF SetMax(js.parties) >= 1 /\ SetMax(js.parties) <= 4
    THEN SetMax(js.parties)
    ELSE 2

(***************************************************************************)
(* The wizard script of main.py run_irs_ein_application (449-709)          *)
(***************************************************************************)

St(op, id, grp, line) == [op |-> op, id |-> id, grp |-> grp, line |-> line]

\* The scripted steps in source order.  grp names the try block a lookup shares with others ("":
\* none); steps 9 and 10 run only when llc_members = 2.
Script == <<
    St("create", "uc.Chrome",                    "",        451),
    St("open",   "driver.get",                   "",        457),
    St("click",  "Begin Application",            "",        460),
    St("wait",   "individual-leftcontent",       "",        463),
    St("radio",  "entity type",                  "",        492),
    St("click",  "Continue",                     "",        494),
    St("click",  "Continue",                     "",        496),
    St("field",  "numbermem",                    "llc",     501),
    St("state",  "state",                        "",        506),
    St("click",  "Continue",                     "",        508),
    St("radio",  "radio_n",                      "",        511),
    St("click",  "Continue",                     "",        512),
    St("click",  "Continue",                     "",        514),
    St("radio",  "newbiz",                       "",        516),
    St("click",  "Continue",                     "",        518),
    St("field",  "responsiblePartyFirstName",    "party",   521),
    St("field",  "responsiblePartyLastName",     "party",   524),
    St("field",  "responsiblePartySSN3",         "party",   527),
    St("field",  "responsiblePartySSN2",         "party",   531),
    St("field",  "responsiblePartySSN4",         "party",   535),
    St("radio",  "iamsole",                      "",        540),
    St("click",  "Continue",                     "",        542),
    St("field",  "physicalAddressStreet",        "address", 545),
    St("field",  "physicalAddressCity",          "address", 548),
    St("field",  "physicalAddressState",         "address", 551),
    St("field",  "physicalAddressZipCode",       "address", 557),
    St("field",  "phoneFirst3",                  "address", 570),
    St("field",  "phoneMiddle3",                 "address", 573),
    St("field",  "phoneLast4",                   "address", 576),
    St("radio",  "radioAnotherAddress",          "",        590),
    St("click",  "Continue",                     "",        594),
    St("click",  "Accept As Entered",            "",        595),
    St("field",  "businessOperationalLegalName", "name",    605),
    St("field",  "businessOperationalCounty",    "county",  611),
    St("field",  "articalsFiledState",           "filed",   617),
    St("field",  "BUSINESS_OPERATIONAL_MONTH_ID", "date",   645),
    St("field",  "BUSINESS_OPERATIONAL_YEAR_ID", "date",    653),
    St("click",  "Continue",                     "",        664),
    St("radio",  "radioTrucking_n",              "",        674),
    St("radio",  "radioInvolveGambling_n",       "",        674),
    St("radio",  "radioExciseTax_n",             "",        674),
    St("radio",  "radioSellTobacco_n",           "",        674),
    St("radio",  "radioHasEmployees_n",          "",        674),
    St("click",  "Continue",                     "",        676),
    St("radio",  "other",                        "",        678),
    St("click",  "Continue",                     "",        679),
    St("radio",  "other",                        "",        681),
    St("field",  "pleasespecify",                "specify", 685),
    St("click",  "Continue",                     "",        690),
    St("radio",  "receiveonline",                "",        692),
    St("click",  "Continue",                     "",        694),
    St("shot",   "screenshot",                   "",        698) >>

NSteps == Len(Script)
StepNos == 1..NSteps

Done == NSteps + 1

\* The steps guarded by `if llc_members == 2` (main.py 510-512).
OnlyIfTwoMembers == {i \in StepNos : Script[i].line \in {511, 512}}

\* The steps a run with `members` members is scripted to perform.
Scripted(members) == IF members = 2 THEN StepNos ELSE StepNos \ OnlyIfTwoMembers

\* The step after step i in source order, the conditional ones skipped when
\* llc_members is not 2; NSteps + 1 is the return statement.
RECURSIVE NextStep(_, _)
NextStep(i, members) ==
    IF i + 1 > NSteps THEN NSteps + 1
    ELSE IF (i + 1) \in Scripted(members) THEN i + 1
    ELSE NextStep(i + 1, members)

\* The first step after the try block of step i: where control goes when a
\* lookup or fill inside the block raises (its except clause only logs).
RECURSIVE GroupEnd(_)
GroupEnd(i) ==
    IF i + 1 > NSteps THEN NSteps + 1
    ELSE IF Script[i + 1].grp # Script[i].grp THEN i + 1
    ELSE GroupEnd(i + 1)

\* A failure that is not caught where it happens and ends the script.
AfterFailure_halts(i, members) == NSteps + 1

\* After a failure in step i: the rest of its try block is skipped.
AfterFailure(i, members) ==
    IF Script[i].grp = "" THEN NextStep(i, members) ELSE GroupEnd(i)

\* Exceptions the browser layer raises, by their message.
Excs == {"chrome not reachable", "timeout"}

Returned(drv, success, message, shot) ==
    [kind |-> "ret", driver |-> drv, success |-> success,
     message |-> message, screenshot |-> shot]

\* The outer guard (main.py 707-709): `return driver, wait, False, str(e),
\* None`.  Reading the local `wait` before it was assigned raises.
OuterGuard(e) ==
    /\ caught' = e
    /\ IF waitBound
       THEN /\ result' = Returned(driver, FALSE, e, None)
            /\ raised' = "none"
       ELSE /\ result' = NoResult
            /\ raised' = "UnboundLocalError"

AtStep(op) == wpc \in StepNos /\ Script[wpc].op = op

\* uc.Chrome(options) and WebDriverWait (main.py 449-453).
CreateBrowser ==
    /\ AtStep("create")
    /\ \/ /\ driver' = "open" /\ waitBound' = TRUE
          /\ wpc' = NextStep(wpc, llc_members)
          /\ UNCHANGED <<result, raised, caught>>
       \/ \E e \in Excs :
             /\ driver' = "none" /\ waitBound' = FALSE /\ wpc' = Done
             /\ OuterGuard(e)
    /\ attempted' = Append(attempted, wpc)
    /\ UNCHANGED <<json_summary, entryLoaded, llc_members, clickFailed, navOk>>
    /\ UNCHANGED <<epVars, stVars, shVars, prVars, fdVars, jsVars>>

\* handle_unexpected_popups, driver.get, handle_unexpected_popups (455-458).
OpenPage ==
    /\ AtStep("open")
    /\ \/ /\ wpc' = NextStep(wpc, llc_members) /\ UNCHANGED <<result, raised, caught>>
       \/ \E e \in Excs : wpc' = Done /\ OuterGuard(e)
    /\ attempted' = Append(attempted, wpc)
    /\ UNCHANGED <<json_summary, driver, waitBound, entryLoaded, llc_members,
                   clickFailed, navOk>>
    /\ UNCHANGED <<epVars, stVars, shVars, prVars, fdVars, jsVars>>

\* A click_button call; its return value is not read (main.py 460, 494, ...).
StepClick ==
    /\ AtStep("click")
    /\ \E outs \in [1..(DefaultRetries + 1) -> ClickOutcomes] :
          LET r == click_button(outs, DefaultRetries) IN
          /\ clickFailed' = (clickFailed \/ ~r.ret)
          /\ navOk' = (navOk /\ r.clicks = 1)
    /\ attempted' = Append(attempted, wpc)
    /\ wpc' = NextStep(wpc, llc_members)
    /\ UNCHANGED <<json_summary, driver, waitBound, entryLoaded, llc_members,
                   result, raised, caught>>
    /\ UNCHANGED <<epVars, stVars, shVars, prVars, fdVars, jsVars>>

\* wait.until(presence_of_element_located('individual-leftcontent')) (463):
\* outside every inner try, so a timeout reaches the outer guard.
StepWait ==
    /\ AtStep("wait")
    /\ attempted' = Append(attempted, wpc)
    /\ \/ /\ entryLoaded' = TRUE /\ wpc' = NextStep(wpc, llc_members)
          /\ UNCHANGED <<result, raised, caught>>
       \/ \E e \in Excs :
             /\ wpc' = Done /\ OuterGuard(e) /\ UNCHANGED entryLoaded
    /\ UNCHANGED <<json_summary, driver, waitBound, llc_members, clickFailed, navOk>>
    /\ UNCHANGED <<epVars, stVars, shVars, prVars, fdVars, jsVars>>

\* A select_radio call; its return value is not read.
StepRadio ==
    /\ AtStep("radio")
    /\ \E o \in RadioOutcomes : select_radio(o).ret \in BOOLEAN
    /\ attempted' = Append(attempted, wpc)
    /\ wpc' = NextStep(wpc, llc_members)
    /\ UNCHANGED <<json_summary, driver, waitBound, entryLoaded, llc_members,
                   clickFailed, navOk, result, raised, caught>>
    /\ UNCHANGED <<epVars, stVars, shVars, prVars, fdVars, jsVars>>

\* The select_state call (506); select_state catches what it raises.
StepState ==
    /\ AtStep("state")
    /\ attempted' = Append(attempted, wpc)
    /\ wpc' = NextStep(wpc, llc_members)
    /\ UNCHANGED <<json_summary, driver, waitBound, entryLoaded, llc_members,
                   clickFailed, navOk, result, raised, caught>>
    /\ UNCHANGED <<epVars, stVars, shVars, prVars, fdVars, jsVars>>

\* A control lookup and fill inside a try block: on a failure the except
\* clause logs and the rest of the block is skipped.  llc_members is
\* computed on the way to the first field (498).
StepField ==
    /\ AtStep("field")
    /\ attempted' = Append(attempted, wpc)
    /\ llc_members' = IF Script[wpc].id = "numbermem"
                      THEN determine_number_of_members(json_summary)
                      ELSE llc_members
    /\ \/ wpc' = NextStep(wpc, llc_members')
       \/ wpc' = AfterFailure(wpc, llc_members')
    /\ UNCHANGED <<json_summary, driver, waitBound, entryLoaded, clickFailed,
                   navOk, result, raised, caught>>
    /\ UNCHANGED <<epVars, stVars, shVars, prVars, fdVars, jsVars>>

\* The screenshot (696-702) and the return of the success tuple (704-705).
StepReturn ==
    /\ AtStep("shot")
    /\ attempted' = Append(attempted, wpc)
    /\ \E shot \in {"png", None} :
          result' = Returned(driver, TRUE, "reached the final page", shot)
    /\ wpc' = Done
    /\ UNCHANGED <<json_summary, driver, waitBound, entryLoaded, llc_members,
                   clickFailed, navOk, raised, caught>>
    /\ UNCHANGED <<epVars, stVars, shVars, prVars, fdVars, jsVars>>

Init ==
    /\ wpc = 1 /\ json_summary \in JsonSummaries /\ driver = "none"
    /\ waitBound = FALSE /\ entryLoaded = FALSE /\ llc_members = 0
    /\ attempted = <<>> /\ clickFailed = FALSE /\ navOk = TRUE
    /\ result = NoResult /\ raised = "none" /\ caught = "none"
    /\ EpIdle /\ StIdle /\ ShIdle /\ PrIdle /\ FdIdle /\ JsIdle

Next ==
    \/ CreateBrowser \/ OpenPage \/ StepClick \/ StepWait \/ StepRadio
    \/ StepState \/ StepField \/ StepReturn

Spec == Init /\ [][Next]_vars

(***************************************************************************)
(* The /run-irs-ein handler and the confirmation map (main.py 722-845),    *)
(* and the /run-irs-ein handler of main_FAST.py (365-688, 730-736)         *)
(*                                                                         *)
(* The handlers are coroutines of one event loop: the code between two     *)
(* awaits runs without interleaving, so each action below is one such      *)
(* stretch.  run_irs_ein_application never awaits (it sleeps with          *)
(* time.sleep), so a whole wizard run is one stretch; its outcome is one   *)
(* of RunOutcomes, the results the wizard model above produces.            *)
(***************************************************************************)

\* Requests served and callbacks received in one behaviour of the model.
MaxRequests == 2
MaxCallbacks == 2

\* record_id / formId values.
Ids == {"a", "b"}

\* timeout and interval of the confirmation wait (main.py 767-768).
Timeout == 300
Interval == 5

\* What `await run_irs_ein_application(data)` gives the handler: the
\* UnboundLocalError of the outer guard when uc.Chrome failed, else the
\* returned tuple with the open driver.
RunOutcomes ==
    {[kind |-> "raise", exc |-> "UnboundLocalError"]}
    \cup {Returned("open", FALSE, "timeout", None)}
    \cup {Returned("open", TRUE, "reached the final page", shot) :
              shot \in {"png", None}}

\* completion_payload (main.py 738-745).
CompletionPayload_always_completed(id, r) ==
    [endpoint |-> "FormAutomationCompletion", formId |-> id,
     status |-> "Completed", message |-> r.message, screenshot |-> r.screenshot]

CompletionPayload(id, r) ==
    [endpoint |-> "FormAutomationCompletion", formId |-> id,
     status |-> IF r.success THEN "Completed" ELSE "Failed",
     message |-> r.message, screenshot |-> r.screenshot]

\* update_payload (main.py 790-793).
UpdatePayload(id) ==
    [endpoint |-> "FormAutomationUpdateStatus", formId |-> id,
     status |-> "Completed", message |-> None, screenshot |-> None]

\* How a POST ends: status 200, another status, or an exception.
PostOutcomes == {"200", "non200", "raise"}

Resp(code, path) == [code |-> code, path |-> path]

\* The finally clause (main.py 822-835; main_FAST.py 675-688): with a driver,
\* terminate and quit it ("quit"), kill the process when that raises
\* ("killed"), log when the kill raises too ("failed"); without one, nothing.
Teardown_missing(drv) == {"none"}

Teardown(drv) == IF drv = "none" THEN {"none"} ELSE {"quit", "killed", "failed"}

\* Leaving the handler: the finally clause runs, then the response goes out.
Finally(drv, resp) ==
    /\ \E t \in Teardown(drv) : teardown' = t
    /\ response' = resp
    /\ served' = served + 1
    /\ epc' = "idle"

\* `while elapsed < timeout` (main.py 771).
LoopContinues_off_by_one(el) == el <= Timeout

LoopContinues(el) == el < Timeout

\* confirmation_status[data.formId] = data.proceed (main.py 844).
StoreConfirmation_keeps_first(m, id, p) ==
    IF id \in DOMAIN m THEN m
    ELSE [k \in DOMAIN m \cup {id} |-> IF k = id THEN p ELSE m[k]]

StoreConfirmation(m, id, p) ==
    [k \in DOMAIN m \cup {id} |-> IF k = id THEN p ELSE m[k]]

\* confirmation_status.pop(record_id): the map without the entry (main.py 773).
PopConfirmation(m, id) == [k \in DOMAIN m \ {id} |-> m[k]]

NewRequest(v, id) ==
    /\ epc = "idle" /\ served < MaxRequests
    /\ req' = [variant |-> v, record_id |-> id]
    /\ elapsed' = 0 /\ polls' = 0 /\ finalized' = FALSE
    /\ consumedAt' = -1 /\ replies' = <<>>

\* An unauthenticated /run-irs-ein request (main.py 724-726): 401, nothing else.
Unauthorized ==
    \E id \in Ids :
        /\ NewRequest("main", id)
        /\ run' = NoResult /\ edriver' = "none" /\ sessions' = 0 /\ posts' = <<>>
        /\ postedAt' = -1
        /\ teardown' = "none" /\ response' = Resp(401, "unauthorized")
        /\ served' = served + 1 /\ epc' = "idle"
        /\ UNCHANGED <<confirmation_status, proceed, cbLog>>
        /\ UNCHANGED <<wizVars, stVars, shVars, prVars, fdVars, jsVars>>

\* An authenticated /run-irs-ein request up to its first await (main.py
\* 728-756): the wizard run, the check of driver and wait, the completion
\* payload and the sending of the completion POST.
RunRequest ==
    \E id \in Ids, r \in RunOutcomes :
        /\ NewRequest("main", id)
        /\ run' = r
        /\ IF r.kind = "raise"
           THEN \* the handler's driver is still None (main.py 728, 818-835)
                /\ edriver' = "none" /\ sessions' = 0 /\ posts' = <<>>
                /\ postedAt' = -1
                /\ Finally("none", Resp(500, "run_raised"))
           ELSE /\ edriver' = r.driver /\ sessions' = 1
                /\ posts' = <<CompletionPayload(id, r)>>
                /\ postedAt' = Len(cbLog)
                /\ epc' = "post" /\ teardown' = "none"
                /\ response' = NoResponse
                /\ UNCHANGED served
        /\ UNCHANGED <<confirmation_status, proceed, cbLog>>
        /\ UNCHANGED <<wizVars, stVars, shVars, prVars, fdVars, jsVars>>

\* Variant that goes on to the wait whatever the POST gave.
CompletionResponse_ignores_status ==
    /\ epc = "post"
    /\ \E o \in PostOutcomes : replies' = Append(replies, o)
    /\ epc' = "wait"
    /\ UNCHANGED <<teardown, response, served>>
    /\ UNCHANGED <<confirmation_status, req, run, edriver, sessions, posts,
                   elapsed, polls, proceed, finalized, cbLog, consumedAt, postedAt>>
    /\ UNCHANGED <<wizVars, stVars, shVars, prVars, fdVars, jsVars>>

\* The completion POST returns or raises (main.py 757-769).
CompletionResponse ==
    /\ epc = "post"
    /\ \E o \in PostOutcomes :
          /\ replies' = Append(replies, o)
          /\ IF o = "200"
             THEN /\ epc' = "wait"
                  /\ UNCHANGED <<teardown, response, served>>
             ELSE Finally(edriver, Resp(500, "post_failed"))
    /\ UNCHANGED <<confirmation_status, req, run, edriver, sessions, posts,
                   elapsed, polls, proceed, finalized, cbLog, consumedAt, postedAt>>
    /\ UNCHANGED <<wizVars, stVars, shVars, prVars, fdVars, jsVars>>

\* One round of the wait loop (main.py 771-777): the test of the map, then
\* either the pop or the sleep and `elapsed += interval`.
Poll ==
    /\ epc = "wait" /\ LoopContinues(elapsed)
    /\ polls' = polls + 1
    /\ IF req.record_id \in DOMAIN confirmation_status
       THEN /\ proceed' = confirmation_status[req.record_id]
            /\ confirmation_status' = PopConfirmation(confirmation_status, req.record_id)
            /\ consumedAt' = Len(cbLog)
            /\ epc' = "got"
            /\ UNCHANGED elapsed
       ELSE /\ elapsed' = elapsed + Interval
            /\ UNCHANGED <<proceed, confirmation_status, consumedAt, epc>>
    /\ UNCHANGED <<req, run, edriver, sessions, teardown, posts, finalized,
                   response, served, cbLog, postedAt, replies>>
    /\ UNCHANGED <<wizVars, stVars, shVars, prVars, fdVars, jsVars>>

\* The loop's else clause (main.py 778-780, 818-820): HTTPException(504) is
\* raised inside the handler's try and re-raised by its except clause as 500.
WaitTimeout ==
    /\ epc = "wait" /\ ~LoopContinues(elapsed)
    /\ Finally(edriver, Resp(500, "timeout"))
    /\ UNCHANGED <<confirmation_status, req, run, edriver, sessions, posts,
                   elapsed, polls, proceed, finalized, cbLog, consumedAt, postedAt,
                   replies>>
    /\ UNCHANGED <<wizVars, stVars, shVars, prVars, fdVars, jsVars>>

\* After the pop (main.py 782-816): with proceed, finalize_form_submission
\* (which clicks nothing and returns True) and the sending of the status
\* update; without, the 'did not confirm' response.
Confirmed ==
    /\ epc = "got"
    /\ IF proceed
       THEN /\ finalized' = TRUE
            /\ posts' = Append(posts, UpdatePayload(req.record_id))
            /\ epc' = "update"
            /\ UNCHANGED <<teardown, response, served>>
       ELSE /\ Finally(edriver, Resp(200, "declined"))
            /\ UNCHANGED <<finalized, posts>>
    /\ UNCHANGED <<confirmation_status, req, run, edriver, sessions, elapsed,
                   polls, proceed, cbLog, consumedAt, postedAt, replies>>
    /\ UNCHANGED <<wizVars, stVars, shVars, prVars, fdVars, jsVars>>

\* The status update returns or raises (main.py 805-813).
UpdateResponse ==
    /\ epc = "update"
    /\ \E o \in PostOutcomes :
          /\ replies' = Append(replies, o)
          /\ Finally(edriver, IF o = "200" THEN Resp(200, "completed")
                              ELSE Resp(500, "update_failed"))
    /\ UNCHANGED <<confirmation_status, req, run, edriver, sessions, posts,
                   elapsed, polls, proceed, finalized, cbLog, consumedAt, postedAt>>
    /\ UNCHANGED <<wizVars, stVars, shVars, prVars, fdVars, jsVars>>

\* confirmation_callback (main.py 837-845); an unauthenticated one is
\* answered 401 and changes nothing.
confirmation_callback ==
    /\ Len(cbLog) < MaxCallbacks
    /\ \E id \in Ids, p \in BOOLEAN :
          /\ confirmation_status' = StoreConfirmation(confirmation_status, id, p)
          /\ cbLog' = Append(cbLog, [formId |-> id, proceed |-> p])
    /\ UNCHANGED <<epc, req, run, edriver, sessions, teardown, posts, elapsed,
                   polls, proceed, finalized, response, served, consumedAt, postedAt,
                   replies>>
    /\ UNCHANGED <<wizVars, stVars, shVars, prVars, fdVars, jsVars>>

\* What main_FAST's run_irs_ein_application meets: no CSV data (no browser
\* is created), uc.Chrome raising, an exception later in the run, or none.
FastOutcomes == {"no_csv", "chrome_raise", "run_raise", "ok"}

\* main_FAST's /run-irs-ein handler (main_FAST.py 365-369, 424-428, 667-688,
\* 730-736): it never awaits, so a request is one stretch.
FastRequest ==
    \E o \in FastOutcomes :
        /\ NewRequest("FAST", None)
        /\ run' = NoResult /\ posts' = <<>> /\ postedAt' = -1
        /\ sessions' = IF o \in {"no_csv", "chrome_raise"} THEN 0 ELSE 1
        /\ edriver' = IF o \in {"no_csv", "chrome_raise"} THEN "none" ELSE "open"
        /\ Finally(edriver', IF o = "ok" THEN Resp(200, "fast_ok")
                             ELSE Resp(500, "fast_failed"))
        /\ UNCHANGED <<confirmation_status, proceed, cbLog>>
        /\ UNCHANGED <<wizVars, stVars, shVars, prVars, fdVars, jsVars>>

InitEndpoint ==
    /\ confirmation_status = EmptyMap /\ epc = "idle" /\ req = NoRequest
    /\ run = NoResult /\ edriver = "none" /\ sessions = 0 /\ teardown = "none"
    /\ posts = <<>> /\ elapsed = 0 /\ polls = 0 /\ proceed = FALSE
    /\ finalized = FALSE /\ response = NoResponse /\ served = 0 /\ cbLog = <<>>
    /\ consumedAt = -1 /\ postedAt = -1 /\ replies = <<>>
    /\ WizIdle /\ StIdle /\ ShIdle /\ PrIdle /\ FdIdle /\ JsIdle

NextEndpoint ==
    \/ Unauthorized \/ RunRequest \/ CompletionResponse \/ Poll \/ WaitTimeout
    \/ Confirmed \/ UpdateResponse \/ confirmation_callback \/ FastRequest

SpecEndpoint == InitEndpoint /\ [][NextEndpoint]_vars

(***************************************************************************)
(* select_state (main.py 221-316, main_FAST.py 285-325)                    *)
(*                                                                         *)
(* Strings are TLA+ strings; upper(), strip() and the regular expression   *)
(* of the code are computed character by character.                        *)
(***************************************************************************)

Char(s, i) == SubSeq(s, i, i)
From(s, i) == SubSeq(s, i, Len(s))

LowerCase == "abcdefghijklmnopqrstuvwxyz"
UpperCase == "ABCDEFGHIJKLMNOPQRSTUVWXYZ"
Whitespace == {" ", "\t", "\n"}

IndexIn(alphabet, c) ==
    IF \E k \in 1..Len(alphabet) : Char(alphabet, k) = c
    THEN CHOOSE k \in 1..Len(alphabet) : Char(alphabet, k) = c
    ELSE 0

\* str.upper()
RECURSIVE upper(_)
upper(s) ==
    IF Len(s) = 0 THEN ""
    ELSE LET k == IndexIn(LowerCase, Char(s, 1))
         IN  (IF k > 0 THEN Char(UpperCase, k) ELSE Char(s, 1)) \o upper(From(s, 2))

\* str.strip()
RECURSIVE lstrip(_)
lstrip(s) ==
    IF Len(s) > 0 /\ Char(s, 1) \in Whitespace THEN lstrip(From(s, 2)) ELSE s

RECURSIVE rstrip(_)
rstrip(s) ==
    IF Len(s) > 0 /\ Char(s, Len(s)) \in Whitespace
    THEN rstrip(SubSeq(s, 1, Len(s) - 1)) ELSE s

strip(s) == rstrip(lstrip(s))

\* The number of whitespace characters s starts with.
RECURSIVE SpaceRun(_)
SpaceRun(s) ==
    IF Len(s) > 0 /\ Char(s, 1) \in Whitespace THEN 1 + SpaceRun(From(s, 2)) ELSE 0

\* The position of the first ")" of s, 0 when it has none.
RECURSIVE ClosePos(_)
ClosePos(s) ==
    IF Len(s) = 0 THEN 0
    ELSE IF Char(s, 1) = ")" THEN 1
    ELSE LET c == ClosePos(From(s, 2)) IN IF c = 0 THEN 0 ELSE c + 1

\* The length of the match of \s*\([^)]+\) at the start of s, 0 when there
\* is none: the whitespace, "(", one or more characters other than ")", ")".
MatchLen(s) ==
    LET w == SpaceRun(s)
        t == From(s, w + 1)
    IN  IF Len(t) > 0 /\ Char(t, 1) = "("
        THEN LET c == ClosePos(From(t, 2))
             IN  IF c >= 2 THEN w + 1 + c ELSE 0
        ELSE 0

\* re.sub(r'\s*\([^)]+\)', '', s)
RECURSIVE re_sub(_)
re_sub(s) ==
    IF Len(s) = 0 THEN ""
    ELSE LET n == MatchLen(s)
         IN  IF n > 0 THEN re_sub(From(s, n + 1))
             ELSE Char(s, 1) \o re_sub(From(s, 2))

\* state_mapping of main.py (221-273).
state_mapping ==
    "ALABAMA" :> "AL" @@ "AL" :> "AL" @@ "ALABAMA (AL)" :> "AL" @@
    "ALASKA" :> "AK" @@ "AK" :> "AK" @@ "ALASKA (AK)" :> "AK" @@
    "ARIZONA" :> "AZ" @@ "AZ" :> "AZ" @@ "ARIZONA (AZ)" :> "AZ" @@
    "ARKANSAS" :> "AR" @@ "AR" :> "AR" @@ "ARKANSAS (AR)" :> "AR" @@
    "CALIFORNIA" :> "CA" @@ "CA" :> "CA" @@ "CALIFORNIA (CA)" :> "CA" @@
    "COLORADO" :> "CO" @@ "CO" :> "CO" @@ "COLORADO (CO)" :> "CO" @@
    "CONNECTICUT" :> "CT" @@ "CT" :> "CT" @@ "CONNECTICUT (CT)" :> "CT" @@
    "DELAWARE" :> "DE" @@ "DE" :> "DE" @@ "DELAWARE (DE)" :> "DE" @@
    "DISTRICT OF COLUMBIA" :> "DC" @@ "DC" :> "DC" @@ "DISTRICT OF COLUMBIA (DC)" :> "DC" @@
    "FLORIDA" :> "FL" @@ "FL" :> "FL" @@ "FLORIDA (FL)" :> "FL" @@
    "GEORGIA" :> "GA" @@ "GA" :> "GA" @@ "GEORGIA (GA)" :> "GA" @@
    "HAWAII" :> "HI" @@ "HI" :> "HI" @@ "HAWAII (HI)" :> "HI" @@
    "IDAHO" :> "ID" @@ "ID" :> "ID" @@ "IDAHO (ID)" :> "ID" @@
    "ILLINOIS" :> "IL" @@ "IL" :> "IL" @@ "ILLINOIS (IL)" :> "IL" @@
    "INDIANA" :> "IN" @@ "IN" :> "IN" @@ "INDIANA (IN)" :> "IN" @@
    "IOWA" :> "IA" @@ "IA" :> "IA" @@ "IOWA (IA)" :> "IA" @@
    "KANSAS" :> "KS" @@ "KS" :> "KS" @@ "KANSAS (KS)" :> "KS" @@
    "KENTUCKY" :> "KY" @@ "KY" :> "KY" @@ "KENTUCKY (KY)" :> "KY" @@
    "LOUISIANA" :> "LA" @@ "LA" :> "LA" @@ "LOUISIANA (LA)" :> "LA" @@
    "MAINE" :> "ME" @@ "ME" :> "ME" @@ "MAINE (ME)" :> "ME" @@
    "MARYLAND" :> "MD" @@ "MD" :> "MD" @@ "MARYLAND (MD)" :> "MD" @@
    "MASSACHUSETTS" :> "MA" @@ "MA" :> "MA" @@ "MASSACHUSETTS (MA)" :> "MA" @@
    "MICHIGAN" :> "MI" @@ "MI" :> "MI" @@ "MICHIGAN (MI)" :> "MI" @@
    "MINNESOTA" :> "MN" @@ "MN" :> "MN" @@ "MINNESOTA (MN)" :> "MN" @@
    "MISSISSIPPI" :> "MS" @@ "MS" :> "MS" @@ "MISSISSIPPI (MS)" :> "MS" @@
    "MISSOURI" :> "MO" @@ "MO" :> "MO" @@ "MISSOURI (MO)" :> "MO" @@
    "MONTANA" :> "MT" @@ "MT" :> "MT" @@ "MONTANA (MT)" :> "MT" @@
    "NEBRASKA" :> "NE" @@ "NE" :> "NE" @@ "NEBRASKA (NE)" :> "NE" @@
    "NEVADA" :> "NV" @@ "NV" :> "NV" @@ "NEVADA (NV)" :> "NV" @@
    "NEW HAMPSHIRE" :> "NH" @@ "NH" :> "NH" @@ "NEW HAMPSHIRE (NH)" :> "NH" @@
    "NEW JERSEY" :> "NJ" @@ "NJ" :> "NJ" @@ "NEW JERSEY (NJ)" :> "NJ" @@
    "NEW MEXICO" :> "NM" @@ "NM" :> "NM" @@ "NEW MEXICO (NM)" :> "NM" @@
    "NEW YORK" :> "NY" @@ "NY" :> "NY" @@ "NEW YORK (NY)" :> "NY" @@
    "NORTH CAROLINA" :> "NC" @@ "NC" :> "NC" @@ "NORTH CAROLINA (NC)" :> "NC" @@
    "NORTH DAKOTA" :> "ND" @@ "ND" :> "ND" @@ "NORTH DAKOTA (ND)" :> "ND" @@
    "OHIO" :> "OH" @@ "OH" :> "OH" @@ "OHIO (OH)" :> "OH" @@
    "OKLAHOMA" :> "OK" @@ "OK" :> "OK" @@ "OKLAHOMA (OK)" :> "OK" @@
    "OREGON" :> "OR" @@ "OR" :> "OR" @@ "OREGON (OR)" :> "OR" @@
    "PENNSYLVANIA" :> "PA" @@ "PA" :> "PA" @@ "PENNSYLVANIA (PA)" :> "PA" @@
    "RHODE ISLAND" :> "RI" @@ "RI" :> "RI" @@ "RHODE ISLAND (RI)" :> "RI" @@
    "SOUTH CAROLINA" :> "SC" @@ "SC" :> "SC" @@ "SOUTH CAROLINA (SC)" :> "SC" @@
    "SOUTH DAKOTA" :> "SD" @@ "SD" :> "SD" @@ "SOUTH DAKOTA (SD)" :> "SD" @@
    "TENNESSEE" :> "TN" @@ "TN" :> "TN" @@ "TENNESSEE (TN)" :> "TN" @@
    "TEXAS" :> "TX" @@ "TX" :> "TX" @@ "TEXAS (TX)" :> "TX" @@
    "UTAH" :> "UT" @@ "UT" :> "UT" @@ "UTAH (UT)" :> "UT" @@
    "VERMONT" :> "VT" @@ "VT" :> "VT" @@ "VERMONT (VT)" :> "VT" @@
    "VIRGINIA" :> "VA" @@ "VA" :> "VA" @@ "VIRGINIA (VA)" :> "VA" @@
    "WASHINGTON" :> "WA" @@ "WA" :> "WA" @@ "WASHINGTON (WA)" :> "WA" @@
    "WEST VIRGINIA" :> "WV" @@ "WV" :> "WV" @@ "WEST VIRGINIA (WV)" :> "WV" @@
    "WISCONSIN" :> "WI" @@ "WI" :> "WI" @@ "WISCONSIN (WI)" :> "WI" @@
    "WYOMING" :> "WY" @@ "WY" :> "WY" @@ "WYOMING (WY)" :> "WY"

\* state_mapping of main_FAST.py (285-290): the first two and the last
\* jurisdiction only.
state_mapping_FAST ==
    "ALABAMA" :> "AL" @@ "AL" :> "AL" @@ "ALABAMA (AL)" :> "AL" @@
    "ALASKA" :> "AK" @@ "AK" :> "AK" @@ "ALASKA (AK)" :> "AK" @@
    "WYOMING" :> "WY" @@ "WY" :> "WY" @@ "WYOMING (WY)" :> "WY"

Table(v) == IF v = "main" THEN state_mapping ELSE state_mapping_FAST

\* dict.get(key, default)
Get(m, key, default) == IF key \in DOMAIN m THEN m[key] ELSE default

\* `physical_state.upper().strip()` (main.py 286, main_FAST.py 302).
normalized_no_upper(s) == strip(s)

normalized(s) == strip(upper(s))

\* The choice of state_value (main.py 288-295, main_FAST.py 304-311) for the
\* upper-cased, trimmed input p: None when the code finds the input invalid.
state_value(m, p, available_values) ==
    IF p \in available_values THEN p
    ELSE LET normalized_input == strip(re_sub(p))
             v == Get(m, p, Get(m, normalized_input, None))
         IN  IF v = None \/ v \notin available_values THEN None ELSE v

\* `not physical_state`
Falsy(a) == ~a.given \/ Len(a.text) = 0

\* ---- inputs
Codes == {state_mapping[k] : k \in DOMAIN state_mapping}

\* Most blanks put before and after an input.
MaxPad == 1

RECURSIVE Blanks(_)
Blanks(n) == IF n = 0 THEN "" ELSE " " \o Blanks(n - 1)

Pads == {Blanks(n) : n \in 0..MaxPad} \cup {"\t"}

RECURSIVE lower(_)
lower(s) ==
    IF Len(s) = 0 THEN ""
    ELSE LET k == IndexIn(UpperCase, Char(s, 1))
         IN  (IF k > 0 THEN Char(LowerCase, k) ELSE Char(s, 1)) \o lower(From(s, 2))

\* First letter as written, the rest in lower case.
capitalized(s) == IF Len(s) = 0 THEN "" ELSE Char(s, 1) \o lower(From(s, 2))

InCase(c, s) ==
    IF c = "upper" THEN s ELSE IF c = "lower" THEN lower(s) ELSE capitalized(s)

Given(text, code, form) ==
    [given |-> TRUE, text |-> text, code |-> code, form |-> form]

\* Every key of the state table (full name, code, 'NAME (XX)'), in three
\* letter cases, with blanks around it; `code` is the code the table gives.
TableInputs ==
    {Given(l \o InCase(c, k) \o r, state_mapping[k], "table") :
        k \in DOMAIN state_mapping, c \in {"upper", "lower", "capitalized"},
        l \in Pads, r \in Pads}

\* Inputs the table has no key for, but has one once a parenthetical suffix
\* is removed.
SuffixInputs ==
    {Given("Texas  (TX)", "TX", "suffix"), Given("ohio(oh)", "OH", "suffix"),
     Given("Nevada (USA)", "NV", "suffix"), Given("Maine (ME) (US)", "ME", "suffix")}

\* Inputs that are neither a code nor, with or without a suffix, a key.
JunkInputs ==
    {NoArgument}
    \cup {Given(t, None, "junk") :
            t \in {"", " ", " \t ", "ZZ", "Nowhere", "(CA)", "TX ()", "Puerto Rico (PR)"}}

StateInputs == TableInputs \cup SuffixInputs \cup JunkInputs

\* The option values the control may offer: the codes, the codes and a
\* blank placeholder, the codes but 'TX', a placeholder and a few codes.
OptionSets == {Codes, Codes \cup {""}, Codes \ {"TX"}, {"", "AL", "TX"}}

\* ---- steps
\* main.py 276-278: an empty or absent argument becomes "TX" before the try;
\* main_FAST.py tests it inside the try (see Resolve).
Enter ==
    /\ spc = "enter"
    /\ IF variant = "main" /\ Falsy(arg)
       THEN physical_state' = "TX" /\ logged' = logged \cup {"missing"}
       ELSE UNCHANGED <<physical_state, logged>>
    /\ spc' = "locate"
    /\ UNCHANGED <<variant, arg, options, located, resolved, selected,
                   selectedBy, stExc>>
    /\ UNCHANGED <<wizVars, epVars, shVars, prVars, fdVars, jsVars>>

\* The wait for the control, the scroll and the reading of its options
\* (main.py 281-285, main_FAST.py 294-298): any of them may raise.
Locate ==
    /\ spc = "locate"
    /\ \E o \in {"ok", "wait_raise", "read_raise"} :
          /\ located' = (o # "wait_raise")
          /\ IF o = "ok" THEN spc' = "resolve" /\ UNCHANGED stExc
             ELSE spc' = "handler" /\ stExc' = "locate"
    /\ UNCHANGED <<variant, arg, physical_state, options, resolved, selected,
                   selectedBy, logged>>
    /\ UNCHANGED <<wizVars, epVars, shVars, prVars, fdVars, jsVars>>

\* main.py 286-299, main_FAST.py 300-311.
Resolve ==
    /\ spc = "resolve"
    /\ IF variant = "FAST" /\ Falsy(arg)
       THEN /\ stExc' = "ValueError" /\ spc' = "handler"
            /\ UNCHANGED <<physical_state, resolved, logged>>
       ELSE LET p == normalized(physical_state)
                v == state_value(Table(variant), p, options)
            IN  /\ physical_state' = p
                /\ IF v # None
                   THEN /\ resolved' = v /\ spc' = "select"
                        /\ UNCHANGED <<stExc, logged>>
                   ELSE IF variant = "main"
                   THEN /\ resolved' = "TX" /\ spc' = "select"
                        /\ logged' = logged \cup {"invalid"}
                        /\ UNCHANGED stExc
                   ELSE /\ stExc' = "ValueError" /\ spc' = "handler"
                        /\ UNCHANGED <<resolved, logged>>
    /\ UNCHANGED <<variant, arg, options, located, selected, selectedBy>>
    /\ UNCHANGED <<wizVars, epVars, shVars, prVars, fdVars, jsVars>>

\* The three selection methods (main.py 301-308, main_FAST.py 313-320):
\* select_by_value; when it raises, select_by_visible_text of the option
\* with that value; when that raises, the scripted assignment.  The first
\* two need an option with the value; the assignment of a value that no
\* option has leaves the control with nothing selected.
SelectOutcomes == {"value", "text", "js", "raise"}

Select ==
    /\ spc = "select"
    /\ \E o \in SelectOutcomes :
          /\ o \in {"value", "text"} => resolved \in options
          /\ IF o = "raise"
             THEN /\ stExc' = "select" /\ spc' = "handler"
                  /\ UNCHANGED <<selected, selectedBy>>
             ELSE /\ spc' = "popups" /\ UNCHANGED stExc
                  /\ IF resolved \in options
                     THEN selected' = resolved /\ selectedBy' = o
                     ELSE selected' = "" /\ selectedBy' = "cleared"
    /\ UNCHANGED <<variant, arg, physical_state, options, located, resolved, logged>>
    /\ UNCHANGED <<wizVars, epVars, shVars, prVars, fdVars, jsVars>>

\* handle_unexpected_popups after the selection (main.py 309, main_FAST.py 322).
Popups ==
    /\ spc = "popups"
    /\ \E o \in {"ok", "raise"} :
          IF o = "ok" THEN spc' = "done" /\ UNCHANGED stExc
          ELSE spc' = "handler" /\ stExc' = "popups"
    /\ UNCHANGED <<variant, arg, physical_state, options, located, resolved,
                   selected, selectedBy, logged>>
    /\ UNCHANGED <<wizVars, epVars, shVars, prVars, fdVars, jsVars>>

\* The except clause.  main.py 310-316: a warning, then select_by_value("TX")
\* on the control, which raises when state_select is unbound or 'TX' is not
\* offered (then only an error is logged).  main_FAST.py 323-325: a warning.
Handler ==
    /\ spc = "handler"
    /\ IF variant = "main"
       THEN \E o \in {"ok", "raise"} :
               IF o = "ok" /\ located /\ "TX" \in options
               THEN /\ selected' = "TX" /\ selectedBy' = "handler"
                    /\ logged' = logged \cup {"failed"}
               ELSE /\ logged' = logged \cup {"failed", "default_failed"}
                    /\ UNCHANGED <<selected, selectedBy>>
       ELSE /\ logged' = logged \cup {"failed"}
            /\ UNCHANGED <<selected, selectedBy>>
    /\ spc' = "done"
    /\ UNCHANGED <<variant, arg, physical_state, options, located, resolved, stExc>>
    /\ UNCHANGED <<wizVars, epVars, shVars, prVars, fdVars, jsVars>>

InitState ==
    /\ spc = "enter"
    /\ variant \in {"main", "FAST"}
    /\ arg \in StateInputs
    /\ physical_state = arg.text
    /\ options \in OptionSets
    /\ located = FALSE /\ resolved = None /\ selected = "" /\ selectedBy = "none"
    /\ stExc = "none" /\ logged = {}
    /\ WizIdle /\ EpIdle /\ ShIdle /\ PrIdle /\ FdIdle /\ JsIdle

NextState == Enter \/ Locate \/ Resolve \/ Select \/ Popups \/ Handler

SpecState == InitState /\ [][NextState]_vars

(***************************************************************************)
(* Requests of several clients (main_FAST.py 34, 182-227, 365-398,         *)
(* 691-736; main.py 356-390)                                               *)
(*                                                                         *)
(* main_FAST's /run-irs-ein takes no body: the run reads the CSV file at   *)
(* CSV_FILE_PATH, which /fetch-salesforce writes.  main.py's run reads the *)
(* request body.  Neither handler awaits between its reads and writes.     *)
(***************************************************************************)

\* Runs in one behaviour of the model.
MaxRuns == 3

\* `locations` of try_multiple_locations (main_FAST.py 187-193); its last
\* entry, the relative path, names the file of the first.
Locations == <<"cwd", "desktop", "documents", "temp">>

LocationSet == {Locations[k] : k \in 1..Len(Locations)}

\* The first location of the list that can be written, None when none can.
FirstWritable(writable) ==
    IF \E k \in 1..Len(Locations) : Locations[k] \in writable
    THEN Locations[CHOOSE k \in 1..Len(Locations) :
                       /\ Locations[k] \in writable
                       /\ \A j \in 1..(k - 1) : Locations[j] \notin writable]
    ELSE None

\* export_to_csv_direct (main_FAST.py 131-180) at a writable location.
Written(fs, loc, data) ==
    [l \in DOMAIN fs \cup {loc} |-> IF l = loc THEN data ELSE fs[l]]

\* read_csv_data (main_FAST.py 214-227): the row, None when there is no file.
read_csv_data(fs, loc) == Get(fs, loc, None)

ARun(v, input, used) == [variant |-> v, input |-> input, used |-> used]

\* /fetch-salesforce for record rid (main_FAST.py 691-721) when the record
\* is found: try_multiple_locations writes it at CSV_FILE_PATH or, when that
\* cannot be written, at the first location that can, which then becomes
\* CSV_FILE_PATH.  A failed connection or lookup changes nothing.
Fetch ==
    \E rid \in Ids, writable \in SUBSET LocationSet :
        /\ IF CSV_FILE_PATH \in writable
           THEN /\ files' = Written(files, CSV_FILE_PATH, rid)
                /\ UNCHANGED CSV_FILE_PATH
           ELSE IF FirstWritable(writable) # None
           THEN /\ files' = Written(files, FirstWritable(writable), rid)
                /\ CSV_FILE_PATH' = FirstWritable(writable)
           ELSE UNCHANGED <<files, CSV_FILE_PATH>>
        /\ UNCHANGED runs
        /\ UNCHANGED <<wizVars, epVars, stVars, prVars, fdVars, jsVars>>

\* main_FAST's /run-irs-ein (730-736, 365-398): no request input; the
\* values the run fills in are those of the CSV row, None when it has none
\* and returns at once.
RunFast ==
    /\ Len(runs) < MaxRuns
    /\ runs' = Append(runs, ARun("FAST", None, read_csv_data(files, CSV_FILE_PATH)))
    /\ UNCHANGED <<files, CSV_FILE_PATH>>
    /\ UNCHANGED <<wizVars, epVars, stVars, prVars, fdVars, jsVars>>

\* main.py's run (356-390): every value comes from the request body `data`.
RunMain ==
    /\ Len(runs) < MaxRuns
    /\ \E id \in Ids : runs' = Append(runs, ARun("main", id, id))
    /\ UNCHANGED <<files, CSV_FILE_PATH>>
    /\ UNCHANGED <<wizVars, epVars, stVars, prVars, fdVars, jsVars>>

InitShared ==
    /\ CSV_FILE_PATH = "cwd" /\ files = EmptyMap /\ runs = <<>>
    /\ WizIdle /\ EpIdle /\ StIdle /\ PrIdle /\ FdIdle /\ JsIdle

NextShared == Fetch \/ RunFast \/ RunMain

SpecShared == InitShared /\ [][NextShared]_vars

(***************************************************************************)
(* One call of click_button, select_radio or handle_unexpected_popups      *)
(* (main.py 202-219, 318-354; main_FAST.py 266-283, 327-363: the same      *)
(* code in both variants)                                                  *)
(***************************************************************************)

\* Largest `retries` a call of the model passes.
MaxRetries == 3

\* Most native dialogs a page of the model shows one after the other, most
\* 'No thanks' buttons it holds, and most calls in a row.
MaxDialogs == 3
MaxButtons == 2
MaxCalls == 3

NoRadio == [js |-> None, click |-> None, popups |-> None]

Call(fn, retries, outs, o) ==
    [fn |-> fn, retries |-> retries, outs |-> outs, o |-> o]

ClickCalls ==
    UNION {{Call("click_button", r, q, NoRadio) :
               q \in [1..(r + 1) -> ClickOutcomes]} : r \in 0..MaxRetries}

RadioCalls == {Call("select_radio", 0, <<>>, o) : o \in RadioOutcomes}

PopupsCall == Call("handle_unexpected_popups", 0, <<>>, NoRadio)

\* The page as handle_unexpected_popups meets it: `dialogs` native dialogs
\* still to be shown (one is open while dialogs > 0; the next opens when it
\* is closed), `buttons` 'No thanks' buttons, and whether the four functions
\* are overridden.  A page with the overrides shows no native dialog.
Pages ==
    {pg \in [dialogs : 0..MaxDialogs, buttons : 0..MaxButtons, overridden : BOOLEAN] :
        pg.overridden => pg.dialogs = 0}

\* A command other than an alert command that meets an open dialog fails
\* with 'unexpected alert open'; the driver's default prompt handling
\* dismisses the dialog as it does.
Dismissed(pg) == [pg EXCEPT !.dialogs = pg.dialogs - 1]

\* main.py 203-206: accept the open dialog; none open raises, swallowed.
AcceptAlert(pg) == IF pg.dialogs > 0 THEN Dismissed(pg) ELSE pg

\* main.py 208-212: find the first 'No thanks' button and click it (its
\* popup goes away); whatever raises is swallowed.
ClickNoThanks(pg) ==
    IF pg.dialogs > 0 THEN Dismissed(pg)
    ELSE IF pg.buttons > 0 THEN [pg EXCEPT !.buttons = pg.buttons - 1]
    ELSE pg

\* main.py 214-219: the script that overrides alert, confirm, prompt and
\* open; it is not inside a try.
OverrideDialogs(pg) ==
    IF pg.dialogs > 0 THEN [page |-> Dismissed(pg), raised |-> TRUE]
    ELSE [page |-> [pg EXCEPT !.overridden = TRUE], raised |-> FALSE]

handle_unexpected_popups(pg) == OverrideDialogs(ClickNoThanks(AcceptAlert(pg)))

CallClickButton ==
    /\ ppc = "call" /\ pcall.fn = "click_button"
    /\ pres' = click_button(pcall.outs, pcall.retries)
    /\ ppc' = "done"
    /\ UNCHANGED <<pcall, pages>>
    /\ UNCHANGED <<wizVars, epVars, stVars, shVars, fdVars, jsVars>>

CallSelectRadio ==
    /\ ppc = "call" /\ pcall.fn = "select_radio"
    /\ pres' = select_radio(pcall.o)
    /\ ppc' = "done"
    /\ UNCHANGED <<pcall, pages>>
    /\ UNCHANGED <<wizVars, epVars, stVars, shVars, fdVars, jsVars>>

\* handle_unexpected_popups, called again on the page the last call left.
CallPopups ==
    /\ pcall.fn = "handle_unexpected_popups" /\ Len(pages) <= MaxCalls
    /\ LET r == handle_unexpected_popups(pages[Len(pages)])
       IN  /\ pages' = Append(pages, r.page)
           /\ pres' = [kind |-> IF r.raised THEN "raise" ELSE "ret"]
    /\ ppc' = "done"
    /\ UNCHANGED pcall
    /\ UNCHANGED <<wizVars, epVars, stVars, shVars, fdVars, jsVars>>

InitPrimitives ==
    /\ ppc = "call" /\ pres = NoResult
    /\ \/ pcall \in ClickCalls \cup RadioCalls /\ pages = <<>>
       \/ pcall = PopupsCall /\ \E pg \in Pages : pages = <<pg>>
    /\ WizIdle /\ EpIdle /\ StIdle /\ ShIdle /\ FdIdle /\ JsIdle

NextPrimitives == CallClickButton \/ CallSelectRadio \/ CallPopups

SpecPrimitives == InitPrimitives /\ [][NextPrimitives]_vars

(***************************************************************************)
(* Legal-name normalisation (main.py 597-603, main_FAST.py 567-573) and    *)
(* formation-date parsing (main.py 626-643, main_FAST.py 596-612)          *)
(***************************************************************************)

Digits == "0123456789"
IsDigit(c) == IndexIn(Digits, c) > 0
IsLetter(c) == IndexIn(LowerCase, c) > 0 \/ IndexIn(UpperCase, c) > 0

\* str.endswith(suffix)
endswith(s, suffix) ==
    /\ Len(s) >= Len(suffix)
    /\ SubSeq(s, Len(s) - Len(suffix) + 1, Len(s)) = suffix

\* s[:-n] for n > 0
DropLast(s, n) == IF n >= Len(s) THEN "" ELSE SubSeq(s, 1, Len(s) - n)

\* re.sub(r'[^\w\s\-&]', '', s): only letters, digits, '_', whitespace, '-'
\* and '&' are kept.
Allowed(c) == IsLetter(c) \/ IsDigit(c) \/ c \in Whitespace \/ c \in {"_", "-", "&"}

RECURSIVE remove_disallowed(_)
remove_disallowed(s) ==
    IF Len(s) = 0 THEN ""
    ELSE (IF Allowed(Char(s, 1)) THEN Char(s, 1) ELSE "") \o remove_disallowed(From(s, 2))

\* endings_to_remove (main.py 598).
endings_to_remove == <<"Corp", "Inc", "LLC", "LC", "PLLC", "PA">>

\* The loop of main.py 599-601 from ending number i on: every ending of the
\* list is tested in turn against the name as the earlier ones left it.
RECURSIVE remove_endings(_, _)
remove_endings(name, i) ==
    IF i > Len(endings_to_remove) THEN name
    ELSE remove_endings(
             IF endswith(upper(name), upper(endings_to_remove[i]))
             THEN strip(DropLast(name, Len(endings_to_remove[i])))
             ELSE name,
             i + 1)

\* legal_business_name_cleaned (main.py 597-602).
legal_business_name_cleaned(legal_business_name) ==
    remove_disallowed(remove_endings(strip(legal_business_name), 1))

\* ---- datetime.strptime
\* The value of a string of digits.
RECURSIVE DigitsValue(_)
DigitsValue(s) ==
    IF Len(s) = 0 THEN 0
    ELSE 10 * DigitsValue(SubSeq(s, 1, Len(s) - 1)) + (IndexIn(Digits, Char(s, Len(s))) - 1)

AllDigits(s) == \A k \in 1..Len(s) : IsDigit(Char(s, k))

\* The position of the first occurrence of character c in s, 0 when none.
RECURSIVE Find(_, _)
Find(s, c) ==
    IF Len(s) = 0 THEN 0
    ELSE IF Char(s, 1) = c THEN 1
    ELSE LET k == Find(From(s, 2), c) IN IF k = 0 THEN 0 ELSE k + 1

\* s cut at every occurrence of the separator character.
RECURSIVE Split(_, _)
Split(s, sep) ==
    LET k == Find(s, sep)
    IN  IF k = 0 THEN <<s>>
        ELSE <<SubSeq(s, 1, k - 1)>> \o Split(From(s, k + 1), sep)

\* The directives as strptime's regular expressions take them: %Y four
\* digits; %m one or two digits, 1..12; %d one or two digits, or a blank and
\* a digit, 1..31.
MatchesY(t) == Len(t) = 4 /\ AllDigits(t)
MatchesM(t) == Len(t) \in {1, 2} /\ AllDigits(t) /\ DigitsValue(t) \in 1..12
MatchesD(t) ==
    \/ Len(t) \in {1, 2} /\ AllDigits(t) /\ DigitsValue(t) \in 1..31
    \/ Len(t) = 2 /\ Char(t, 1) = " " /\ IsDigit(Char(t, 2)) /\ Char(t, 2) # "0"
DayValue(t) == IF Char(t, 1) = " " THEN DigitsValue(From(t, 2)) ELSE DigitsValue(t)

IsLeap(y) == (y % 4 = 0 /\ y % 100 # 0) \/ y % 400 = 0
DaysIn(y, m) ==
    IF m = 2 THEN (IF IsLeap(y) THEN 29 ELSE 28)
    ELSE IF m \in {4, 6, 9, 11} THEN 30 ELSE 31

NoDate == [ok |-> FALSE, year |-> 0, month |-> 0, day |-> 0]

\* The datetime built from the three tokens: a year below 1 or a day the
\* month does not have is a ValueError.
MakeDate(ty, tm, td) ==
    IF MatchesY(ty) /\ MatchesM(tm) /\ MatchesD(td)
       /\ DigitsValue(ty) >= 1 /\ DayValue(td) <= DaysIn(DigitsValue(ty), DigitsValue(tm))
    THEN [ok |-> TRUE, year |-> DigitsValue(ty), month |-> DigitsValue(tm),
          day |-> DayValue(td)]
    ELSE NoDate

\* date_formats (main.py 628).
date_formats == <<"%Y-%m-%d", "%m/%d/%Y", "%Y/%m/%d">>

\* datetime.strptime(s, fmt) for the three formats of date_formats; ok is
\* FALSE where strptime raises ValueError.
strptime_day_first(s, fmt) ==
    LET sep == Char(fmt, 3)
        t == Split(s, sep)
    IN  IF Len(t) # 3 THEN NoDate
        ELSE IF fmt = "%m/%d/%Y" THEN MakeDate(t[3], t[2], t[1])
        ELSE MakeDate(t[1], t[2], t[3])

strptime(s, fmt) ==
    LET sep == Char(fmt, 3)
        t == Split(s, sep)
    IN  IF Len(t) # 3 THEN NoDate
        ELSE IF fmt = "%m/%d/%Y" THEN MakeDate(t[3], t[1], t[2])
        ELSE MakeDate(t[1], t[2], t[3])

\* The loop of main.py 630-636 from format number i on: the first format
\* that parses decides; NoDate is `parsed_date is None`.
RECURSIVE parse_from(_, _)
parse_from(s, i) ==
    IF i > Len(date_formats) THEN NoDate
    ELSE LET d == strptime(strip(s), date_formats[i])
         IN  IF d.ok THEN d ELSE parse_from(s, i + 1)

(***************************************************************************)
(* The values a run writes (main.py 356-390, 497-691; of main_FAST.py the  *)
(* legal name, formation date and description blocks, 375-398, 567-577,    *)
(* 596-630, 652-658)                                                       *)
(*                                                                         *)
(* Numbers are written as numbers: str() of a month, a year or a member    *)
(* count is its decimal numeral.                                           *)
(***************************************************************************)

Absent == [given |-> FALSE, text |-> "", nan |-> FALSE]
Some(t) == [given |-> TRUE, text |-> t, nan |-> FALSE]

\* An empty CSV cell as pandas reads it back (main_FAST.py 216-217): the
\* float NaN, not text.
NaN == [given |-> TRUE, text |-> "", nan |-> TRUE]

\* Variant without the fallback: the field's own text.
Or_no_default(x, default) == x.text

\* `x or default`
Or(x, default) == IF x.given /\ Len(x.text) > 0 THEN x.text ELSE default

\* `mapping.get(key, default)` for a key that is there exactly when given
GetOr(x, default) == IF x.given THEN x.text ELSE default

\* s[-n:] and s[a:b] (0-based, b exclusive)
LastN(s, n) == IF n >= Len(s) THEN s ELSE SubSeq(s, Len(s) - n + 1, Len(s))
Slice(s, a, b) == SubSeq(s, a + 1, IF b < Len(s) THEN b ELSE Len(s))

\* re.sub(r'\D', '', s)
RECURSIVE digits_only(_)
digits_only(s) ==
    IF Len(s) = 0 THEN ""
    ELSE (IF IsDigit(Char(s, 1)) THEN Char(s, 1) ELSE "") \o digits_only(From(s, 2))

\* The optional fields of CaseData the run reads (main.py 38-58).
DataFields ==
    {"entity_name", "entity_type", "formation_date", "business_description", "business_address_1",
     "entity_state", "city", "zip_code", "entity_state_record_state",
     "ssn_decrypted", "case_contact_first_name", "case_contact_last_name",
     "case_contact_phone"}

\* A request that carries record_id only (json_summary as JsonSummaries has it).
OnlyRecordId ==
    [f \in DataFields \cup {"json_summary"} |->
        IF f = "json_summary" THEN [kind |-> "absent"] ELSE Absent]

With(f, t) == [OnlyRecordId EXCEPT ![f] = Some(t)]

\* main.py 358-385, with the 'is required' tests: `missing` is the field a
\* test found missing, None when none did.
Locals(d) ==
    LET ssn == Or(d["ssn_decrypted"], "123456789")
        name == Or(d["entity_name"], "Lane Four Capital Partners LLC")
        street == Or(d["business_address_1"], "3315 Cherry Ln")
        city == Or(d["city"], "Austin")
        state == Or(d["entity_state"], "TX")
        zip == Or(d["zip_code"], "78703")
    IN  [first_name |-> Or(d["case_contact_first_name"], "Rob"),
         last_name |-> Or(d["case_contact_last_name"], "Chuchla"),
         ssn_decrypted |-> ssn,
         ssn_last_four |-> IF Len(ssn) >= 4 THEN LastN(ssn, 4) ELSE "1234",
         formation_date |-> Or(d["formation_date"], "2024-06-24"),
         business_description |-> Or(d["business_description"], "Financial services"),
         legal_business_name |-> name,
         physical_street1 |-> street,
         physical_city |-> city,
         physical_state |-> state,
         physical_zipcode |-> zip,
         select_state_value |->
             Or(d["entity_state_record_state"], IF Len(state) > 0 THEN state ELSE "TX"),
         case_contact_phone |-> d["case_contact_phone"],
         entity_type |-> Or(d["entity_type"], "Limited Liability Company (LLC)"),
         raises |-> None,
         missing |-> IF Len(name) = 0 THEN "entity_name"
                     ELSE IF Len(street) = 0 THEN "business_address_1"
                     ELSE IF Len(city) = 0 THEN "city"
                     ELSE IF Len(zip) = 0 THEN "zip_code"
                     ELSE None]

\* main_FAST.py 371-398: the values the modelled blocks use, each read with
\* .get(key, default); a field of d stands for the CSV column or the
\* flattened key the value comes from.  `.strip()` of the entity type (381)
\* raises AttributeError for NaN; a NaN formation date is kept as text no
\* format parses (its .strip() raises inside the date block's try).
LocalsFast(d) ==
    [formation_date |-> GetOr(d["formation_date"], "2024-06-24"),
     business_description |-> GetOr(d["business_description"], ""),
     legal_business_name |-> GetOr(d["entity_name"], "Lane Four Capital Partners LLC"),
     select_state_value |-> GetOr(d["entity_state"], "TX"),
     entity_type |-> strip(GetOr(d["entity_type"], "Limited Liability Company (LLC)")),
     raises |-> IF d["entity_type"].nan THEN "AttributeError" ELSE None,
     missing |-> None]

\* entity_type_mapping (main.py 466-485, main_FAST.py 440-459).
entity_type_mapping ==
    [t \in {"Limited Liability Company (LLC)", "C-Corporation", "S-Corporation",
            "Non-Profit Corporation", "ProfessionalLimitedLiabilityCompany (PLLC)",
            "ProfessionalCorporation", "Sole Proprietorship", "Partnership",
            "LimitedPartnership", "LimitedLiabilityPartnership", "Corporation",
            "GeneralPartnership", "Trusteeship", "LLC", "LLP",
            "LimitedLiabilityCompany", "ProfessionalLimitedLiabilityCompany",
            "Estate"} |->
        CASE t \in {"Limited Liability Company (LLC)",
                    "ProfessionalLimitedLiabilityCompany (PLLC)", "LLC",
                    "LimitedLiabilityCompany", "ProfessionalLimitedLiabilityCompany"}
               -> "limited"
          [] t \in {"C-Corporation", "S-Corporation", "Non-Profit Corporation",
                    "ProfessionalCorporation", "Corporation"} -> "corporations"
          [] t = "Sole Proprietorship" -> "sole"
          [] t = "Trusteeship" -> "trusts"
          [] t = "Estate" -> "estate"
          [] OTHER -> "partnerships"]

\* .replace(" ", "").replace("(", "").replace(")", "")
RECURSIVE without_spaces_and_parentheses(_)
without_spaces_and_parentheses(s) ==
    IF Len(s) = 0 THEN ""
    ELSE (IF Char(s, 1) \in {" ", "(", ")"} THEN "" ELSE Char(s, 1))
         \o without_spaces_and_parentheses(From(s, 2))

\* main.py 487-489, main_FAST.py 461-463
entity_type_normalized(v, entity_type) ==
    LET t == IF v = "main" THEN strip(entity_type) ELSE entity_type
    IN  IF t \in DOMAIN entity_type_mapping THEN t
        ELSE without_spaces_and_parentheses(t)

\* The radio selected for the entity type: main.py 491-492 falls back to
\* "limited", main_FAST.py 465-469 to "viewadditional".
mapped_value(v, entity_type) ==
    Get(entity_type_mapping, entity_type_normalized(v, entity_type),
        IF v = "main" THEN "limited" ELSE "viewadditional")

Put(w, f, v) == [k \in DOMAIN w \cup {f} |-> IF k = f THEN v ELSE w[k]]

\* fill_field: main.py 189-200 skips a blank value; main_FAST.py 256-264
\* does not.
fill_field(w, v, f, value) ==
    IF v = "main" /\ Len(strip(value)) = 0 THEN w ELSE Put(w, f, value)

RECURSIVE FillAll(_, _, _)
FillAll(w, v, pairs) ==
    IF pairs = <<>> THEN w
    ELSE FillAll(fill_field(w, v, pairs[1][1], pairs[1][2]), v, Tail(pairs))

\* main.py 560-568
PhoneDigits(phone) ==
    LET p == digits_only(Or(phone, "2812173123"))
    IN  IF Len(p) # 10 THEN "2812173123" ELSE p

\* `state_mapping.get(u, u)` for u the upper-cased, trimmed state (main.py
\* 552-553, 619-620).
MappedState(st) == Get(state_mapping, normalized(st), normalized(st))

\* The blocks in the order of the script, and which of them the model
\* follows in each variant.
Blocks == <<"members", "state", "party", "address", "name", "county", "filed",
            "date", "specify">>
BlockNo(b) == CHOOSE k \in 1..Len(Blocks) : Blocks[k] = b
FastBlocks == {"members", "state", "name", "date", "specify"}
InVariant(v, k) == v = "main" \/ Blocks[k] \in FastBlocks

\* The next block of the variant after block k; Len(Blocks) + 1 is the return.
RECURSIVE NextBlock(_, _)
NextBlock(v, k) ==
    IF k + 1 > Len(Blocks) THEN Len(Blocks) + 1
    ELSE IF InVariant(v, k + 1) THEN k + 1 ELSE NextBlock(v, k + 1)

\* ---- inputs
\* Decimal numeral of n, with at least `width` digits.
RECURSIVE Numeral(_, _)
Numeral(n, width) ==
    IF n < 10 /\ width <= 1 THEN Char(Digits, n + 1)
    ELSE Numeral(n \div 10, width - 1) \o Char(Digits, (n % 10) + 1)

\* The date rendered in format number k of date_formats.
Render(y, m, d, k) ==
    IF k = 1 THEN Numeral(y, 4) \o "-" \o Numeral(m, 2) \o "-" \o Numeral(d, 2)
    ELSE IF k = 2 THEN Numeral(m, 2) \o "/" \o Numeral(d, 2) \o "/" \o Numeral(y, 4)
    ELSE Numeral(y, 4) \o "/" \o Numeral(m, 2) \o "/" \o Numeral(d, 2)

Years == {1, 1900, 2000, 2023, 2024, 9999}
Months == 1..12
Days == {1, 9, 10, 12, 13, 24, 28, 29, 30, 31}

\* What an input was built from: `kind` and `form` name the family, `expect`
\* the name a claim expects, year/month/day the date rendered, `fails` the
\* blocks whose first lookup fails in this run.
About(kind, form, expect, y, m, d, fails) ==
    [kind |-> kind, form |-> form, expect |-> expect, year |-> y, month |-> m,
     day |-> d, fails |-> fails]

Case(data, about) == [data |-> data, about |-> about]

\* Base names that end in none of the endings, with their disallowed
\* characters removed.
Bases ==
    {[b |-> "Acme", clean |-> "Acme"],
     [b |-> "Example Holdings", clean |-> "Example Holdings"],
     [b |-> "Smith & Sons", clean |-> "Smith & Sons"],
     [b |-> "A.B. Co-op", clean |-> "AB Co-op"]}

Endings == {endings_to_remove[k] : k \in 1..Len(endings_to_remove)}

Cased(c, t) == IF c = "upper" THEN upper(t) ELSE IF c = "lower" THEN lower(t) ELSE t

\* 'B S' and 'B, S' with S in three letter cases.
SuffixCases ==
    {Case(With("entity_name", x.b \o sep \o Cased(c, e)),
          About("name", e, x.clean, 0, 0, 0, {})) :
        x \in Bases, e \in Endings, c \in {"written", "upper", "lower"},
        sep \in {" ", ", "}}

\* 'B S1 S2' with two different endings; the name expected keeps S1.
TwoSuffixCases ==
    {Case(With("entity_name", x.b \o " " \o e[1] \o " " \o e[2]),
          About("name2", e[2], x.clean \o " " \o e[1], 0, 0, 0, {})) :
        x \in Bases, e \in {q \in Endings \X Endings : q[1] # q[2]}}

\* Every calendar date of Years, Months and Days in the three formats.
DateCases ==
    {Case(With("formation_date", Render(t[1], t[2], t[3], k)),
          About("date", Numeral(k, 1), "", t[1], t[2], t[3], {})) :
        t \in {u \in Years \X Months \X Days : u[3] <= DaysIn(u[1], u[2])},
        k \in 1..Len(date_formats)}

\* Strings none of the three formats parses.
BadDateCases ==
    {Case(With("formation_date", t), About("baddate", "", "", 0, 0, 0, {})) :
        t \in {"June 24, 2024", "24/06/2024", "2024-02-30", "06-24-2024",
               "20240624", "06/24/24", "not a date"}}

\* The request with record_id only, with every choice of failing blocks.
AbsentCases ==
    {Case(OnlyRecordId, About("absent", "", "", 0, 0, 0, fails)) :
        fails \in SUBSET (1..Len(Blocks))}

\* Other requests: every field given; a blank required field.
OtherCases ==
    {Case([f \in DOMAIN OnlyRecordId |->
              IF f = "json_summary" THEN [kind |-> "json", parties |-> {1, 3}]
              ELSE IF f = "entity_state" THEN Some("nevada")
              ELSE IF f = "entity_state_record_state" THEN Some("Delaware (DE)")
              ELSE IF f = "case_contact_phone" THEN Some("(512) 555-0100")
              ELSE IF f = "ssn_decrypted" THEN Some("987654321")
              ELSE IF f = "formation_date" THEN Some("01/15/2020")
              ELSE Some("Value of " \o f)],
          About("given", "", "", 0, 0, 0, {})),
     Case(With("city", " "), About("blank", "", "", 0, 0, 0, {}))}

\* Entity types: the keys of the table, and strings that are not keys.
EntityCases ==
    {Case(With("entity_type", t), About("entity", "", "", 0, 0, 0, {})) :
        t \in DOMAIN entity_type_mapping
              \cup {" LLC ", "Limited Liability Company", "Sole  Proprietorship",
                    "Cooperative", "Professional Corporation"}}

\* SSN and phone inputs: digits only, and formatted with separators.
ContactCases ==
    {Case(With("ssn_decrypted", t), About("ssn", "", "", 0, 0, 0, {})) :
        t \in {"987654321", "123-45-6789", "987 65 4321", "4321", "12"}}
    \cup {Case(With("case_contact_phone", t), About("phone", "", "", 0, 0, 0, {})) :
        t \in {"5125550100", "(281) 217-3123", "512-555-0100", "+1 512 555 0100",
               "555-0100"}}

\* entity_state inputs, with entity_state_record_state absent.
StateCases ==
    {Case(With("entity_state", t), About("state", "", "", 0, 0, 0, {})) :
        t \in {"TX", "ca", " NY ", "Texas", "california", "Delaware (DE)",
               "Atlantis", "XX", " "}}

\* CSV rows with an empty optional column (main_FAST only).
NanCases ==
    {Case([OnlyRecordId EXCEPT ![f] = NaN], About("nan", f, "", 0, 0, 0, {})) :
        f \in {"entity_type", "formation_date"}}

FieldCases ==
    SuffixCases \cup TwoSuffixCases \cup DateCases \cup BadDateCases
    \cup AbsentCases \cup OtherCases \cup EntityCases \cup ContactCases
    \cup StateCases \cup NanCases

\* ---- steps
Returning == Len(Blocks) + 1
Ended == Len(Blocks) + 2

\* main.py 358-385 / main_FAST.py 371-398: the locals; a failed 'is
\* required' test raises HTTPException(400) before the browser starts, and
\* so does an exception of main_FAST.py 371-398, which no try encloses.
Prepare ==
    /\ fpc = 0
    /\ flocals' = IF fvariant = "main" THEN Locals(fdata) ELSE LocalsFast(fdata)
    /\ IF flocals'.missing # None \/ flocals'.raises # None
       THEN fret' = "raise" /\ fpc' = Ended
       ELSE fret' = fret /\ fpc' = NextBlock(fvariant, 0)
    /\ UNCHANGED <<fvariant, fdata, fabout, written, fsteps>>
    /\ UNCHANGED <<wizVars, epVars, stVars, shVars, prVars, jsVars>>

\* One try block of the script: when its first lookup fails nothing of it
\* is written; otherwise `w` is the fields after it.
Block(b, w) ==
    /\ fpc = BlockNo(b) /\ InVariant(fvariant, fpc)
    /\ written' = IF fpc \in fabout.fails THEN written ELSE w
    /\ fsteps' = Append(fsteps, b)
    /\ fpc' = NextBlock(fvariant, fpc)
    /\ UNCHANGED <<fvariant, fdata, fabout, flocals, fret>>
    /\ UNCHANGED <<wizVars, epVars, stVars, shVars, prVars, jsVars>>

\* main.py 495-503; main_FAST.py 475-478 writes "2".
FillMembers ==
    /\ fpc = BlockNo("members")
    /\ Block("members",
          Put(written, "numbermem",
              IF fvariant = "main" THEN determine_number_of_members(fdata["json_summary"])
              ELSE 2))

\* main.py 506, main_FAST.py 481: select_state on a control that offers
\* every code and on which the first selection method works; for an input
\* it cannot resolve main.py selects "TX" and main_FAST.py selects nothing.
FillState ==
    /\ fpc = BlockNo("state")
    /\ Block("state",
          LET v == state_value(Table(fvariant), normalized(flocals.select_state_value),
                               Codes)
          IN  IF v # None THEN Put(written, "state", v)
              ELSE IF fvariant = "main" THEN Put(written, "state", "TX")
              ELSE written)

\* main.py 520-536
FillParty ==
    /\ fpc = BlockNo("party")
    /\ Block("party",
          LET ssn == flocals.ssn_decrypted
          IN  FillAll(written, fvariant,
                  << <<"responsiblePartyFirstName", flocals.first_name>>,
                     <<"responsiblePartyLastName", flocals.last_name>>,
                     <<"responsiblePartySSN3",
                       IF Len(ssn) >= 3 THEN Slice(ssn, 0, 3) ELSE "123">>,
                     <<"responsiblePartySSN2",
                       IF Len(ssn) >= 5 THEN Slice(ssn, 3, 5) ELSE "45">>,
                     <<"responsiblePartySSN4", flocals.ssn_last_four>> >>))

\* main.py 545-577: select_by_value raises for a value the control does not
\* offer, and the rest of the block is skipped.
FillAddress ==
    /\ fpc = BlockNo("address")
    /\ Block("address",
          LET st == MappedState(flocals.physical_state)
              ph == PhoneDigits(flocals.case_contact_phone)
              w1 == FillAll(written, fvariant,
                        << <<"physicalAddressStreet", flocals.physical_street1>>,
                           <<"physicalAddressCity", flocals.physical_city>> >>)
          IN  IF st \notin Codes THEN w1
              ELSE FillAll(Put(w1, "physicalAddressState", st), fvariant,
                       << <<"physicalAddressZipCode", flocals.physical_zipcode>>,
                          <<"phoneFirst3", Slice(ph, 0, 3)>>,
                          <<"phoneMiddle3", Slice(ph, 3, 6)>>,
                          <<"phoneLast4", Slice(ph, 6, 10)>> >>))

\* main.py 597-608, main_FAST.py 567-577
FillName ==
    /\ fpc = BlockNo("name")
    /\ Block("name",
          fill_field(written, fvariant, "businessOperationalLegalName",
                     legal_business_name_cleaned(flocals.legal_business_name)))

\* main.py 610-614
FillCounty ==
    /\ fpc = BlockNo("county")
    /\ Block("county",
          fill_field(written, fvariant, "businessOperationalCounty", flocals.physical_city))

\* main.py 616-624
FillFiledState ==
    /\ fpc = BlockNo("filed")
    /\ Block("filed",
          LET st == MappedState(flocals.physical_state)
          IN  IF st \in Codes THEN Put(written, "articalsFiledState", st) ELSE written)

\* main.py 626-664, main_FAST.py 596-630.  No format parses: main.py takes
\* 2024-06-24; main_FAST.py raises ValueError inside the block's own try,
\* whose except clause logs it, and the script goes on.
FillDate ==
    /\ fpc = BlockNo("date")
    /\ Block("date",
          LET parsed == parse_from(flocals.formation_date, 1)
              date == IF parsed.ok THEN parsed ELSE parse_from("2024-06-24", 1)
          IN  IF ~parsed.ok /\ fvariant = "FAST" THEN written
              ELSE Put(Put(written, "BUSINESS_OPERATIONAL_MONTH_ID", date.month),
                       "BUSINESS_OPERATIONAL_YEAR_ID", date.year))

\* main.py 683-688, main_FAST.py 652-660
FillSpecify ==
    /\ fpc = BlockNo("specify")
    /\ Block("specify",
          fill_field(written, fvariant, "pleasespecify",
                     IF Len(flocals.business_description) = 0
                     THEN "Any and all lawful business"
                     ELSE flocals.business_description))

\* main.py 704-705, main_FAST.py 667-668
ReturnSuccess ==
    /\ fpc = Returning
    /\ fret' = "success" /\ fpc' = Ended
    /\ UNCHANGED <<fvariant, fdata, fabout, flocals, written, fsteps>>
    /\ UNCHANGED <<wizVars, epVars, stVars, shVars, prVars, jsVars>>

InitFields ==
    /\ fpc = 0 /\ fvariant \in {"main", "FAST"}
    /\ \E c \in FieldCases :
          /\ fdata = c.data /\ fabout = c.about
          /\ c.about.kind = "nan" => fvariant = "FAST"
    /\ flocals = EmptyMap /\ written = EmptyMap /\ fsteps = <<>> /\ fret = "none"
    /\ WizIdle /\ EpIdle /\ StIdle /\ ShIdle /\ PrIdle /\ JsIdle

NextFields ==
    \/ Prepare \/ FillMembers \/ FillState \/ FillParty \/ FillAddress \/ FillName
    \/ FillCounty \/ FillFiledState \/ FillDate \/ FillSpecify \/ ReturnSuccess

SpecFields == InitFields /\ [][NextFields]_vars

(***************************************************************************)
(* JSON_Summary__c: flatten_json, parse_json_summary and the locals read   *)
(* from the result (main_FAST.py 229-254, 371-398)                         *)
(***************************************************************************)

\* A JSON value as json.loads returns it.  A scalar carries its text; an
\* object its entries in document order (keys distinct); a list its items
\* (entries with an empty key).
Scalar(v) == [t |-> "scalar", v |-> v, items |-> <<>>]
Object(entries) == [t |-> "dict", v |-> "", items |-> entries]
List(entries) == [t |-> "list", v |-> "", items |-> entries]
Entry(k, n) == [k |-> k, n |-> n]
Item(n) == [k |-> "", n |-> n]

\* key.lower().replace(' ', '_')
RECURSIVE replace_spaces(_)
replace_spaces(s) ==
    IF Len(s) = 0 THEN ""
    ELSE (IF Char(s, 1) = " " THEN "_" ELSE Char(s, 1)) \o replace_spaces(From(s, 2))

key_normalized(key) == replace_spaces(lower(key))

\* dict(items).items(): each key once, at the place of its first
\* occurrence, with the value of its last.
RECURSIVE dict_items(_)
dict_items(items) ==
    IF items = <<>> THEN <<>>
    ELSE LET n == Len(items)
             last == items[n]
             before == dict_items(SubSeq(items, 1, n - 1))
         IN  IF \E i \in 1..Len(before) : before[i].k = last.k
             THEN [i \in 1..Len(before) |->
                      IF before[i].k = last.k THEN last ELSE before[i]]
             ELSE Append(before, last)

\* dict(items) as a mapping.
dict(items) ==
    [key \in {items[i].k : i \in 1..Len(items)} |->
        LET i == SetMax({j \in 1..Len(items) : items[j].k = key}) IN items[i].v]

\* flatten_json(data, parent_key).items() for `data` the dict of the given
\* entries (main_FAST.py 229-240); list items re-enter with an empty parent.
RECURSIVE flatten_json(_, _)
RECURSIVE flatten_list(_, _, _)
flatten_json(entries, parent_key) ==
    IF entries = <<>> THEN <<>>
    ELSE LET e == entries[1]
             new_key == IF parent_key # "" THEN parent_key \o "_" \o key_normalized(e.k)
                        ELSE key_normalized(e.k)
             here == IF e.n.t = "dict" THEN dict_items(flatten_json(e.n.items, new_key))
                     ELSE IF e.n.t = "list" THEN flatten_list(e.n.items, new_key, 0)
                     ELSE << [k |-> new_key, v |-> e.n.v] >>
         IN  here \o flatten_json(Tail(entries), parent_key)

flatten_list(items, new_key, i) ==
    IF items = <<>> THEN <<>>
    ELSE dict_items(flatten_json(
             << Entry(new_key \o "_" \o Numeral(i, 1), items[1].n) >>, ""))
         \o flatten_list(Tail(items), new_key, i + 1)

\* The value of the CSV cell: no such column (the default '{}' is taken),
\* an empty string, NaN (an empty cell read by pandas), text that is not
\* JSON, or JSON text with the value it parses to.
Cell(kind, node) == [kind |-> kind, node |-> node]

\* What leaves a function: its value, or the exception it raised.
Gave(map) == [raised |-> "none", map |-> map]
Raised(exc) == [raised |-> exc, map |-> EmptyMap]

\* The exception of the try body of parse_json_summary, "none" if it
\* completes (main_FAST.py 245-248).
TryBody(c) ==
    IF c.kind = "nan" THEN "TypeError"
    ELSE IF c.kind = "malformed" THEN "JSONDecodeError"
    ELSE IF c.node.t # "dict" THEN "AttributeError"
    ELSE "none"

\* Variant whose only handler is the one for json.JSONDecodeError.
parse_json_summary_decode_only(cell) ==
    LET c == IF cell.kind = "absent" THEN Cell("json", Object(<<>>)) ELSE cell
    IN  IF c.kind = "empty" THEN Gave(EmptyMap)
        ELSE IF TryBody(c) = "none" THEN Gave(dict(flatten_json(c.node.items, "")))
        ELSE IF TryBody(c) = "JSONDecodeError" THEN Gave(EmptyMap)
        ELSE Raised(TryBody(c))

\* parse_json_summary(csv_data.get('JSON_Summary__c', '{}')) (main_FAST.py
\* 242-254, 371): both except clauses return {}.
parse_json_summary(cell) ==
    LET c == IF cell.kind = "absent" THEN Cell("json", Object(<<>>)) ELSE cell
    IN  IF c.kind = "empty" THEN Gave(EmptyMap)
        ELSE IF TryBody(c) = "none" THEN Gave(dict(flatten_json(c.node.items, "")))
        ELSE Gave(EmptyMap)

\* The locals read as flattened_json.get(key, default) (main_FAST.py
\* 376-398) with their defaults.
JsonDefaults ==
    [key \in {"party_0_data_first_name_value", "party_0_data_last_name_value",
              "party_0_data_phone_number_value",
              "business_information_data_business_category_value",
              "business_information_data_business_description_value",
              "business_information_data_legal_business_name_value",
              "physical_business_address_data_street1_value",
              "physical_business_address_data_street2_value",
              "physical_business_address_data_city_value",
              "physical_business_address_data_state_value",
              "physical_business_address_data_zipcode_value",
              "mailing_address_data_street1_value",
              "mailing_address_data_street2_value",
              "mailing_address_data_city_value",
              "mailing_address_data_state_value",
              "mailing_address_data_zipcode_value"} |->
        CASE key = "party_0_data_first_name_value" -> "Rob"
          [] key = "party_0_data_last_name_value" -> "Chuchla"
          [] key = "party_0_data_phone_number_value" -> "2812173123"
          [] key = "business_information_data_business_category_value" -> "Finance"
          [] key = "business_information_data_legal_business_name_value" ->
                 "Lane Four Capital Partners LLC"
          [] key \in {"physical_business_address_data_street1_value",
                      "mailing_address_data_street1_value"} -> "3315 Cherry Ln"
          [] key \in {"physical_business_address_data_city_value",
                      "mailing_address_data_city_value"} -> "Austin"
          [] key \in {"physical_business_address_data_state_value",
                      "mailing_address_data_state_value"} -> "TX"
          [] key \in {"physical_business_address_data_zipcode_value",
                      "mailing_address_data_zipcode_value"} -> "78703"
          [] OTHER -> ""]

\* ---- inputs
MaxEntries == 2

\* Sequences of at most MaxEntries entries with distinct keys from K and
\* values from V.
Entries(K, V) ==
    UNION {{q \in [1..n -> {Entry(k, v) : k \in K, v \in V}] :
               \A i, j \in 1..n : i # j => q[i].k # q[j].k} : n \in 0..MaxEntries}

TopKeys == {"a", "A", "a b", "a_b", "a_0", "c"}
InnerKeys == {"b", "0"}

\* The values below the top level: scalars, objects of scalars, lists.
InnerValues ==
    {Scalar("1"), Scalar("2")}
    \cup {Object(q) : q \in Entries(InnerKeys, {Scalar("1"), Scalar("2")})}
    \cup {List(q) : q \in Entries({""}, {Scalar("1")})}
    \cup {List(<<Item(Scalar("1")), Item(Scalar("2"))>>),
          List(<<Item(Object(<<Entry("b", Scalar("1"))>>))>>),
          List(<<Item(List(<<Item(Scalar("1"))>>))>>)}

Valued(text) == Object(<<Entry("Value", Scalar(text))>>)

\* A summary of the shape the CRM sends, with the keys the run reads.
Summary ==
    Object(<<
        Entry("Party", List(<<
            Item(Object(<<Entry("Data", Object(<<
                Entry("First Name", Valued("Ann")),
                Entry("Last Name", Valued("Lee")),
                Entry("Phone Number", Valued("5125550100"))>>))>>)),
            Item(Object(<<Entry("Data", Object(<<
                Entry("First Name", Valued("Bo"))>>))>>))>>)),
        Entry("Business Information", Object(<<Entry("Data", Object(<<
            Entry("Legal Business Name", Valued("Example Holdings, LLC")),
            Entry("Business Category", Valued("Retail"))>>))>>)),
        Entry("Physical Business Address", Object(<<Entry("Data", Object(<<
            Entry("City", Valued("Reno")),
            Entry("State", Valued("NV"))>>))>>))>>)

Cells ==
    {Cell(k, Scalar("")) : k \in {"absent", "empty", "nan", "malformed"}}
    \cup {Cell("json", n) : n \in {Scalar("5"), Scalar("null"), Scalar("text"),
                                   List(<<>>), List(<<Item(Scalar("1"))>>),
                                   List(<<Item(Object(<<Entry("a", Scalar("1"))>>))>>),
                                   Summary}}
    \cup {Cell("json", Object(q)) : q \in Entries(TopKeys, InnerValues)}

\* ---- steps
\* main_FAST.py 371
CallParse ==
    /\ jpc = "parse"
    /\ flattened_json' = parse_json_summary(json_content)
    /\ jpc' = IF flattened_json'.raised = "none" THEN "locals" ELSE "done"
    /\ UNCHANGED <<json_content, jlocals>>
    /\ UNCHANGED <<wizVars, epVars, stVars, shVars, prVars, fdVars>>

\* main_FAST.py 372-398
ReadLocals ==
    /\ jpc = "locals"
    /\ jlocals' = [key \in DOMAIN JsonDefaults |->
                      Get(flattened_json.map, key, JsonDefaults[key])]
    /\ jpc' = "done"
    /\ UNCHANGED <<json_content, flattened_json>>
    /\ UNCHANGED <<wizVars, epVars, stVars, shVars, prVars, fdVars>>

InitJson ==
    /\ jpc = "parse" /\ json_content \in Cells
    /\ flattened_json = NoResult /\ jlocals = EmptyMap
    /\ WizIdle /\ EpIdle /\ StIdle /\ ShIdle /\ PrIdle /\ FdIdle

NextJson == CallParse \/ ReadLocals

SpecJson == InitJson /\ [][NextJson]_vars

(***************************************************************************)
(* Claims about the wizard run (checked under Spec)                        *)
(***************************************************************************)

RunEnded == wpc = Done
ReturnedSuccess == result.kind = "ret" /\ result.success

Range(q) == {q[k] : k \in 1..Len(q)}
Increasing(q) == \A k \in 1..(Len(q) - 1) : q[k] < q[k + 1]
InBlock(i) == Script[i].grp # ""
BlockHead(i) == InBlock(i) /\ Script[i - 1].grp # Script[i].grp

\* C1: the run returns success=True only in executions in which every
\* page-advancing click_button call succeeded.
C1_SuccessOnlyIfEveryClickSucceeded ==
    (RunEnded /\ ReturnedSuccess) => ~clickFailed

\* C2 as stated: once the entry page has loaded, every later scripted step is
\* attempted, in script order, and the run returns the success result.
C2_EveryLaterStepAttempted ==
    (RunEnded /\ entryLoaded) =>
        /\ ReturnedSuccess
        /\ Increasing(attempted)
        /\ Range(attempted) = Scripted(llc_members)

\* C2 amended: once the entry page has loaded no failure halts the run: it
\* raises nothing and ends with the success result; the steps attempted are
\* attempted in script order; every click, radio and select_state step and
\* the first lookup of every try block the script has passed was attempted,
\* and a later lookup of a try block is attempted only after the lookup
\* before it (a failed lookup skips the rest of its own block, nothing else).
C2_NoFailureHaltsTheRun ==
    entryLoaded =>
        /\ raised = "none" /\ caught = "none"
        /\ RunEnded => ReturnedSuccess
        /\ Increasing(attempted)
        /\ Range(attempted) \subseteq Scripted(llc_members)
        /\ \A i \in Scripted(llc_members) :
              /\ (i < wpc /\ (~InBlock(i) \/ BlockHead(i))) => i \in Range(attempted)
              /\ (i \in Range(attempted) /\ InBlock(i) /\ ~BlockHead(i))
                     => (i - 1) \in Range(attempted)

\* C2 witness: a run that ended with the success result although a click
\* failed and a lookup failure skipped part of a try block.
C2_Witness ==
    /\ RunEnded /\ entryLoaded /\ ReturnedSuccess /\ clickFailed
    /\ Range(attempted) # Scripted(llc_members)
    /\ llc_members = 2

\* C3: every exception raised inside the run is caught by the outer guard and
\* reported as (success=False, its message, no screenshot); the function
\* itself never raises.
C3_GuardReportsEveryException ==
    RunEnded =>
        /\ raised = "none"
        /\ caught # "none" => result = Returned(driver, FALSE, caught, None)

(***************************************************************************)
(* Claims about the handlers (checked under SpecEndpoint)                  *)
(***************************************************************************)

Responded == response # NoResponse /\ epc = "idle"
MainRequest == req.variant = "main"
Consumed == consumedAt >= 0

\* The callbacks for `id` among the first n received.
CallbacksFor(id, n) == {k \in 1..n : cbLog[k].formId = id}

\* C4: when several confirmation callbacks for the same identifier were
\* received before the poll that finds the entry, the handler consumes the
\* proceed value of the last of them.
C4_ConsumesLastCallback ==
    (MainRequest /\ Consumed) =>
        /\ CallbacksFor(req.record_id, consumedAt) # {}
        /\ proceed = cbLog[SetMax(CallbacksFor(req.record_id, consumedAt))].proceed

\* C4 witness: two callbacks for the request's identifier with different
\* proceed values were received after its completion POST was sent, and then
\* the handler consumed the entry.
C4_Witness ==
    /\ MainRequest /\ Consumed
    /\ \E j, k \in CallbacksFor(req.record_id, consumedAt) :
          j < k /\ postedAt < j /\ cbLog[j].proceed # cbLog[k].proceed

\* C5: with no confirmation for the request's identifier the handler tests
\* the map exactly 60 times and then fails with the timeout error; it never
\* tests it more than 60 times, and a request that timed out has neither
\* finalized the form nor sent the status update.
C5_TimesOutAfter60Polls ==
    /\ polls <= 60
    /\ (Responded /\ response.path = "timeout") =>
          /\ polls = 60 /\ elapsed = Timeout
          /\ ~finalized /\ ~Consumed
          /\ \A k \in 1..Len(posts) : posts[k].endpoint # "FormAutomationUpdateStatus"
    /\ (MainRequest /\ epc = "wait" /\ ~LoopContinues(elapsed)) => polls = 60
    /\ (MainRequest /\ Responded /\ CallbacksFor(req.record_id, Len(cbLog)) = {}
           /\ response.path \notin {"unauthorized", "run_raised", "post_failed"})
          => response.path = "timeout"

\* C5 witness: a request that timed out.
C5_Witness == Responded /\ response.path = "timeout" /\ polls = 60

\* C6: a request creates at most one browser session, and when it created
\* one its teardown was attempted before the response went out, whichever
\* way the handler was left.
C6_SessionTornDownBeforeResponse ==
    /\ sessions <= 1
    /\ Responded => (sessions = 1 => teardown # "none")
    /\ sessions = 0 => teardown = "none"

\* C6 witness: the confirmation wait timed out and the session was torn down.
C6_Witness ==
    /\ Responded /\ response.path = "timeout" /\ sessions = 1
    /\ teardown \in {"quit", "killed", "failed"}

IsCompletionPost(m) ==
    /\ m.endpoint = "FormAutomationCompletion"
    /\ m.formId = req.record_id
    /\ m.status = (IF run.success THEN "Completed" ELSE "Failed")
    /\ m.message = run.message

C8_RunValuesDependOnlyOnItsRequest ==
    \A i, j \in 1..Len(runs) :
        (/\ runs[i].variant = runs[j].variant
         /\ runs[i].input = runs[j].input
         /\ runs[i].used # None /\ runs[j].used # None)
        => runs[i].used = runs[j].used

(***************************************************************************)
(* Claims about select_state (checked under SpecState)                     *)
(***************************************************************************)

Returned_state == spc = "done"
SetByMethod == selectedBy \in {"value", "text", "js"}

\* C9: in main.py, when the control offers every code of the state table,
\* every key of the table (full name, XX, 'NAME (XX)') in any letter case
\* and with surrounding whitespace resolves to its code XX, and XX is the
\* option one of the three selection methods selects; it is the option the
\* control holds on return whenever select_state caught no exception.
C9_TableInputsSelectTheirCode ==
    (variant = "main" /\ arg.form = "table" /\ Codes \subseteq options) =>
        /\ resolved # None => resolved = arg.code
        /\ spc \in {"select", "popups"} => resolved = arg.code
        /\ spc = "popups" => (SetByMethod /\ selected = arg.code)
        /\ (Returned_state /\ stExc = "none") => (SetByMethod /\ selected = arg.code)

\* C9 witness: the padded lower-case 'name (xx)' form of New Hampshire was
\* given and option NH is selected on return.
C9_Witness ==
    /\ variant = "main" /\ Codes \subseteq options
    /\ arg.form = "table" /\ arg.text = " new hampshire (nh)\t"
    /\ Returned_state /\ stExc = "none" /\ selected = "NH" /\ SetByMethod

\* C10: for an input that is neither an offered two-letter code nor (with or
\* without suffix) a key of the state table, and for every set of option
\* values, main.py's select_state leaves exactly 'TX' selected and
\* main_FAST's selects nothing and logs the failure.  Stated here for the
\* executions most favourable to it: the control offers 'TX' and the
\* browser raised nothing while the control was located, set or popups
\* were handled.
C10_UnmappableGivesDefaultOrNothing ==
    (/\ Returned_state /\ arg.form = "junk" /\ "TX" \in options
     /\ stExc \in {"none", "ValueError"}) =>
        IF variant = "main"
        THEN selected = "TX" /\ selectedBy \in {"value", "text", "js", "handler"}
        ELSE selectedBy = "none" /\ "failed" \in logged

(***************************************************************************)
(* Claims about single calls (checked under SpecPrimitives)                *)
(***************************************************************************)

Called(fn) == ppc = "done" /\ pcall.fn = fn
OkAttempts == {a \in 1..Len(pcall.outs) : pcall.outs[a] = "ok"}

\* C16: for every retries >= 0 a call of click_button makes at most
\* retries + 1 attempts, stops at the first attempt that succeeds and
\* returns True, returns False when all retries + 1 attempts fail, pauses
\* once after every failed attempt that is followed by another, and returns
\* a boolean in every case (it never raises).
C16_ClickButtonRetries ==
    Called("click_button") =>
        /\ pres.ret \in BOOLEAN
        /\ pres.attempts <= pcall.retries + 1
        /\ pres.ret <=> OkAttempts # {}
        /\ pres.ret => pres.attempts = SetMin(OkAttempts)
        /\ ~pres.ret => pres.attempts = pcall.retries + 1
        /\ pres.pauses = pres.attempts - 1

\* C16 witness: with retries = 2 the first two attempts failed and the third
\* succeeded.
C16_Witness ==
    /\ Called("click_button") /\ pcall.retries = 2
    /\ pcall.outs = <<"fail", "popup_raise", "ok">>
    /\ pres.ret /\ pres.attempts = 3 /\ pres.pauses = 2

\* C17: select_radio performs the real click whenever the scripted path did
\* not leave the control reading as checked, also when the scripted
\* assignment could not be applied (read here for a control the real click
\* would reach).
C17_ClicksWheneverNotChecked ==
    (Called("select_radio") /\ pcall.o.js # "checked" /\ pcall.o.click = "ok")
        => pres.clicked

\* C18: calling handle_unexpected_popups twice in a row leaves the page as
\* calling it once does, with no open dialog and the four functions
\* overridden.
C18_PopupsIdempotent ==
    (pcall.fn = "handle_unexpected_popups" /\ Len(pages) >= 3) =>
        /\ pages[3] = pages[2]
        /\ pages[2].dialogs = 0 /\ pages[2].overridden

(***************************************************************************)
(* Claims about the values a run writes (checked under SpecFields)         *)
(***************************************************************************)

\* The values main.py writes from its hard-coded defaults (main.py 358-385,
\* 560): the name in its normalised form, the date as month and year.
Defaults ==
    [f \in {"numbermem", "state", "responsiblePartyFirstName",
            "responsiblePartyLastName", "responsiblePartySSN3",
            "responsiblePartySSN2", "responsiblePartySSN4",
            "physicalAddressStreet", "physicalAddressCity",
            "physicalAddressState", "physicalAddressZipCode", "phoneFirst3",
            "phoneMiddle3", "phoneLast4", "businessOperationalLegalName",
            "businessOperationalCounty", "articalsFiledState",
            "BUSINESS_OPERATIONAL_MONTH_ID", "BUSINESS_OPERATIONAL_YEAR_ID",
            "pleasespecify"} |->
        CASE f = "numbermem" -> 2
          [] f = "BUSINESS_OPERATIONAL_MONTH_ID" -> 6
          [] f = "BUSINESS_OPERATIONAL_YEAR_ID" -> 2024
          [] f \in {"state", "physicalAddressState", "articalsFiledState"} -> "TX"
          [] f = "responsiblePartyFirstName" -> "Rob"
          [] f = "responsiblePartyLastName" -> "Chuchla"
          [] f = "responsiblePartySSN3" -> "123"
          [] f = "responsiblePartySSN2" -> "45"
          [] f = "responsiblePartySSN4" -> "6789"
          [] f = "physicalAddressStreet" -> "3315 Cherry Ln"
          [] f \in {"physicalAddressCity", "businessOperationalCounty"} -> "Austin"
          [] f = "physicalAddressZipCode" -> "78703"
          [] f = "phoneFirst3" -> "281"
          [] f = "phoneMiddle3" -> "217"
          [] f = "phoneLast4" -> "3123"
          [] f = "businessOperationalLegalName" -> "Lane Four Capital Partners"
          [] OTHER -> "Financial services"]

\* C11: for a request with record_id only, main.py raises for no missing
\* field (no 'is required' test fires) and every value it writes to a wizard
\* field is the documented default of that field; when no lookup fails it
\* writes all of them and returns success.
C11_OnlyDefaultsWritten ==
    (fabout.kind = "absent" /\ fvariant = "main") =>
        /\ fret # "raise"
        /\ fpc > 0 => flocals.missing = None
        /\ \A f \in DOMAIN written : f \in DOMAIN Defaults /\ written[f] = Defaults[f]
        /\ (fret = "success" /\ fabout.fails = {}) => DOMAIN written = DOMAIN Defaults

\* C11 witness: the run of a record_id-only request has returned success
\* having written every default.
C11_Witness ==
    /\ fabout.kind = "absent" /\ fvariant = "main" /\ fabout.fails = {}
    /\ fret = "success" /\ written = Defaults

\* The name and the date a run wrote.
NameWritten == "businessOperationalLegalName" \in DOMAIN written
DateWritten == "BUSINESS_OPERATIONAL_MONTH_ID" \in DOMAIN written
Attempted(b) == \E k \in 1..Len(fsteps) : fsteps[k] = b

\* C14: for a base name B that ends in none of the suffixes and a suffix S
\* in any letter case, the normalisation of 'B S' and of 'B, S' is B with
\* its disallowed characters removed.
C14_SuffixStrippedGivesBase ==
    (fabout.kind = "name" /\ NameWritten) =>
        written["businessOperationalLegalName"] = fabout.expect

\* C15: the formats are tried in the order YYYY-MM-DD, MM/DD/YYYY,
\* YYYY/MM/DD and the first that matches decides; each rendering of a
\* calendar date in one of the three formats is decided by its own format
\* and resolves to the date's month and year.
C15_RenderingsAgree ==
    (fabout.kind = "date" /\ Attempted("date")) =>
        LET s == strip(flocals.formation_date)
            matching == {k \in 1..Len(date_formats) : strptime(s, date_formats[k]).ok}
            first == SetMin(matching)
        IN  /\ matching # {}
            /\ Numeral(first, 1) = fabout.form
            /\ DateWritten
            /\ written["BUSINESS_OPERATIONAL_MONTH_ID"] = strptime(s, date_formats[first]).month
            /\ written["BUSINESS_OPERATIONAL_YEAR_ID"] = strptime(s, date_formats[first]).year
            /\ written["BUSINESS_OPERATIONAL_MONTH_ID"] = fabout.month
            /\ written["BUSINESS_OPERATIONAL_YEAR_ID"] = fabout.year

\* C15 witness: '06/24/2024' has been resolved to month 6, year 2024.
C15_Witness ==
    /\ fabout.kind = "date" /\ Attempted("date")
    /\ flocals.formation_date = "06/24/2024"
    /\ DateWritten
    /\ written["BUSINESS_OPERATIONAL_MONTH_ID"] = 6
    /\ written["BUSINESS_OPERATIONAL_YEAR_ID"] = 2024

\* C19: of a name that ends in two suffix tokens only the last is removed;
\* the other remains in the result.
C19_AtMostOneSuffixRemoved ==
    (fabout.kind = "name2" /\ NameWritten) =>
        written["businessOperationalLegalName"] = fabout.expect

\* C20: a formation date none of the three formats matches aborts the run
\* in main_FAST.py (failure returned, no later wizard step performed) and is
\* replaced by month 6, year 2024 in main.py.
C20_UnparseableDatePolicy ==
    (fabout.kind = "baddate" /\ Attempted("date")) =>
        /\ fvariant = "FAST" => (fret # "success" /\ ~Attempted("specify"))
        /\ fvariant = "main" =>
              /\ DateWritten
              /\ written["BUSINESS_OPERATIONAL_MONTH_ID"] = 6
              /\ written["BUSINESS_OPERATIONAL_YEAR_ID"] = 2024

(***************************************************************************)
(* Claims about JSON_Summary__c (checked under SpecJson)                   *)
(***************************************************************************)

\* The scalar leaves below a value: `raw` the object keys and list
\* positions on the way to the leaf, `path` the same with the keys
\* lower-cased and their spaces replaced by underscores.
RECURSIVE LeafPaths(_, _, _)
LeafPaths(node, raw, path) ==
    IF node.t = "dict"
    THEN UNION {LeafPaths(node.items[i].n, Append(raw, node.items[i].k),
                          Append(path, key_normalized(node.items[i].k))) :
                   i \in 1..Len(node.items)}
    ELSE IF node.t = "list"
    THEN UNION {LeafPaths(node.items[i].n, Append(raw, Numeral(i - 1, 1)),
                          Append(path, Numeral(i - 1, 1))) :
                   i \in 1..Len(node.items)}
    ELSE {[raw |-> raw, path |-> path, v |-> node.v]}

RECURSIVE Joined(_)
Joined(path) ==
    IF Len(path) = 1 THEN path[1] ELSE path[1] \o "_" \o Joined(Tail(path))

Flattened == jpc # "parse" /\ json_content.kind = "json" /\ json_content.node.t = "dict"

\* C12: for a JSON object, flatten_json returns exactly one entry per scalar
\* leaf, keyed by the leaf's path components joined by '_' and holding the
\* leaf's value; distinct leaf paths never share a key.
C12_OneEntryPerLeaf ==
    Flattened =>
        LET leaves == LeafPaths(json_content.node, <<>>, <<>>)
            map == flattened_json.map
        IN  /\ DOMAIN map = {Joined(l.path) : l \in leaves}
            /\ Cardinality(DOMAIN map) = Cardinality(leaves)
            /\ \A l \in leaves : map[Joined(l.path)] = l.v

\* The inputs for which parse_json_summary has nothing to return: no
\* column, an empty or NaN cell, text that is not JSON, JSON that is not an
\* object.
NothingToParse ==
    \/ json_content.kind \in {"absent", "empty", "nan", "malformed"}
    \/ json_content.kind = "json" /\ json_content.node.t # "dict"

\* C13: parse_json_summary never raises; for an input that is absent,
\* empty, not valid JSON or not a JSON object it returns the empty mapping
\* and every local read from it takes its default.
C13_ParseFailsSoft ==
    /\ jpc \in {"locals", "done"} => flattened_json.raised = "none"
    /\ (jpc \in {"locals", "done"} /\ NothingToParse) => flattened_json.map = EmptyMap
    /\ jpc = "done" => DOMAIN jlocals = DOMAIN JsonDefaults
    /\ (jpc = "done" /\ NothingToParse) => jlocals = JsonDefaults

\* C13 witness: the cell held a JSON list of objects and the locals are the
\* defaults.
C13_Witness ==
    /\ jpc = "done" /\ json_content.kind = "json" /\ json_content.node.t = "list"
    /\ Len(json_content.node.items) > 0
    /\ flattened_json = Gave(EmptyMap) /\ jlocals = JsonDefaults

(***************************************************************************)
(* Further claims about the endpoints (checked under SpecEndpoint)         *)
(***************************************************************************)

CompletionFailed == req.variant = "main" /\ Len(replies) >= 1 /\ replies[1] # "200"

\* C21: in main.py, when the completion POST raises or returns a status
\* other than 200 the request is answered 500 and its handler never enters
\* the confirmation wait, consumes no entry of the confirmation map, does
\* not finalize the form and sends no second status update.
C21_FailedCompletionEndsRequest ==
    CompletionFailed =>
        /\ epc = "idle" /\ response.code = 500
        /\ polls = 0 /\ elapsed = 0 /\ consumedAt = -1
        /\ ~finalized /\ Len(posts) = 1 /\ Len(replies) = 1

\* C21 witness: the completion POST was answered with another status while
\* a confirmation for the record was in the map; the entry is still there.
C21_Witness ==
    /\ CompletionFailed /\ replies = <<"non200">> /\ epc = "idle"
    /\ response.code = 500
    /\ req.record_id \in DOMAIN confirmation_status

\* C25: when the confirmation wait of main.py's handler reaches its
\* deadline the caller gets HTTP status 504 (detail 'Timeout waiting for
\* confirmation from Salesforce').
C25_TimeoutAnswered504 ==
    (MainRequest /\ Responded /\ replies = <<"200">> /\ ~Consumed
     /\ ~LoopContinues(elapsed)) => response.code = 504

\* C26: main.py sends the status update 'Completed' and reports 'fully
\* completed' only for requests whose wizard run returned success.
C26_CompletedOnlyAfterSuccess ==
    (MainRequest /\ run.kind = "ret") =>
        /\ (\E k \in 1..Len(posts) : posts[k].endpoint = "FormAutomationUpdateStatus")
               => run.success
        /\ (Responded /\ response.path = "completed") => run.success

\* C27: the proceed value a waiting handler consumes was written by a
\* callback received after the handler sent its completion POST; an entry
\* left in the map by an earlier exchange is never consumed.
C27_ConsumedEntryIsFresh ==
    (MainRequest /\ Consumed) =>
        /\ CallbacksFor(req.record_id, consumedAt) # {}
        /\ SetMax(CallbacksFor(req.record_id, consumedAt)) > postedAt

(***************************************************************************)
(* Further claims about the primitives (checked under SpecPrimitives)      *)
(***************************************************************************)

\* C28: one call of click_button performs at most one successful click on
\* its target, also when the popup handling after a click raises.
C28_AtMostOneClick ==
    Called("click_button") => pres.clicks <= 1

(***************************************************************************)
(* Further claims about select_state (checked under SpecState)             *)
(***************************************************************************)

\* C29: in main.py's select_state, once a selection method has set the
\* resolved code on the control, the control holds that code when
\* select_state returns; the 'TX' of the exception handler is applied only
\* when no selection of the resolved code succeeded.
C29_SelectionSurvivesHandler ==
    (variant = "main" /\ spc = "done" /\ stExc = "popups"
     /\ resolved \in options \cap Codes) =>
        selected = resolved

(***************************************************************************)
(* Further claims about the values a run writes (checked under SpecFields) *)
(***************************************************************************)

\* A string of exactly n digits.
DigitString(x, n) == Len(x) = n /\ \A i \in 1..n : IsDigit(Char(x, i))

Has(f) == f \in DOMAIN written

\* C22: the member-count and state step (filling 'numbermem' and calling
\* select_state) is performed only when the entity type maps to the
\* limited-liability category; for any other category it is not attempted.
C22_MembersStepOnlyForLimited ==
    (fpc > 0 /\ fret # "raise"
     /\ mapped_value(fvariant, flocals.entity_type) # "limited") =>
        ~Attempted("members") /\ ~Attempted("state")

\* C23: in main.py, for every SSN and phone input the three SSN fields get
\* digit strings of lengths 3, 2 and 4 and the three phone fields digit
\* strings of lengths 3, 3 and 4; absent inputs give 123/45/6789 and
\* 281/217/3123.
C23_SsnAndPhoneAreDigits ==
    (fvariant = "main" /\ fabout.kind \in {"ssn", "phone", "absent"}) =>
        /\ Has("responsiblePartySSN3") => DigitString(written["responsiblePartySSN3"], 3)
        /\ Has("responsiblePartySSN2") => DigitString(written["responsiblePartySSN2"], 2)
        /\ Has("responsiblePartySSN4") => DigitString(written["responsiblePartySSN4"], 4)
        /\ Has("phoneFirst3") => DigitString(written["phoneFirst3"], 3)
        /\ Has("phoneMiddle3") => DigitString(written["phoneMiddle3"], 3)
        /\ Has("phoneLast4") => DigitString(written["phoneLast4"], 4)
        /\ (fabout.kind = "absent" /\ Has("responsiblePartySSN4")) =>
              /\ written["responsiblePartySSN3"] = "123"
              /\ written["responsiblePartySSN2"] = "45"
              /\ written["responsiblePartySSN4"] = "6789"
        /\ (fabout.kind = "absent" /\ Has("phoneLast4")) =>
              /\ written["phoneFirst3"] = "281"
              /\ written["phoneMiddle3"] = "217"
              /\ written["phoneLast4"] = "3123"

\* C24: main_FAST's run_irs_ein_application raises for no CSV row, also not
\* for one whose optional columns are empty and read back as NaN: it
\* returns True or False.
C24_FastReturnsBoolean ==
    (fvariant = "FAST" /\ fpc = Ended) => fret \in {"success", "failure"}

\* C30: in main.py, with entity_state_record_state absent, the 'state',
\* 'physicalAddressState' and 'articalsFiledState' controls end up with the
\* same two-letter code for every input string, and a state that cannot be
\* resolved never keeps the zip-code and phone fields from being filled.
C30_StateControlsAgree ==
    (fvariant = "main" /\ fret = "success" /\ fabout.fails = {}
     /\ ~fdata["entity_state_record_state"].given) =>
        /\ Has("state") /\ Has("physicalAddressState") /\ Has("articalsFiledState")
        /\ written["state"] \in Codes
        /\ written["physicalAddressState"] = written["state"]
        /\ written["articalsFiledState"] = written["state"]
        /\ Has("physicalAddressZipCode") /\ Has("phoneFirst3")
        /\ Has("phoneMiddle3") /\ Has("phoneLast4")

====
